---- MODULE Spec2Model ----
(***************************************************************************)
(* A model of reen's deterministic core: the unified-diff parser, the      *)
(* guardrail checker, the diff applier and the compilation auto-fix loop   *)
(* (src/src/cli/compilation_fix.rs).                                       *)
(*                                                                         *)
(* Text is modelled one level above characters:                            *)
(*   - a path is the sequence of its '/'-separated components, so ""  is   *)
(*     <<"">>, "/etc/x" is <<"", "etc", "x">> and "a/src/m.rs" is          *)
(*     <<"a", "src", "m.rs">>;                                             *)
(*   - the text of a source line is the sequence of its tokens, the empty  *)
(*     line being <<>>;                                                    *)
(*   - a line of a diff is a record [k, t, n]: k is the class the parser's *)
(*     starts_with tests put the line in, t its tokens (a path for a       *)
(*     "--- "/"+++ " line), n the old start of a hunk header.              *)
(*                                                                         *)
(* A value that is used several times is handed on as an operator          *)
(* parameter instead of being named in a LET, and the result of a          *)
(* recursive call is bound by ranging over its singleton,                  *)
(* The({F(x) : x \in {e}}), so that it is evaluated once.                  *)
(***************************************************************************)
EXTENDS Integers, Sequences, FiniteSets, TLC

VARIABLES
    \* ---- the auto-fix loop (ensure_compiles_with_auto_fix) ----
    pc,              \* the loop's position
    dry_run,         \* config.dry_run
    max_attempts,    \* the attempt budget
    attempt,         \* the loop variable `attempt` (0 before the loop)
    output,          \* status of the last compiler run: "none" | "ok" | "fail"
    compile_log,     \* the outcome of every compiler invocation, in order
    agent_calls,     \* number of execute_with_context calls
    applied,         \* number of apply_unified_diff calls that returned Ok
    session_dir,     \* whether create_session_dir has run
    attempt_files,   \* attempt number -> files written in attempt_<n>/
    patch_text,      \* the agent's Final text of the current attempt
    extracted,       \* the diff extract_unified_diff returned
    guardrail,       \* the GuardrailReport of the current attempt
    files,           \* the project tree: path -> content
    files_before,    \* the project tree when the current attempt started
    result,          \* what ensure_compiles_with_auto_fix returned
    \* ---- check_guardrails as a function of its input ----
    g_diff,          \* the diff handed to check_guardrails
    g_links,         \* targets that canonicalize to a place outside the root
    g_out,           \* its result, "none" before the call
    g_applied,       \* what apply_unified_diff made of the diff once accepted
    \* ---- apply_unified_diff on one file ----
    a_file,          \* the content of src/m.rs before the call
    a_want,          \* the content the diff was written to produce
    a_diff,          \* the diff handed to apply_unified_diff
    a_shift,         \* the number of lines inserted into the file since the
                     \* diff was written
    a_out,           \* the call's outcome
    \* ---- apply_hunks on one hunk ----
    h_lines,         \* the lines of the file handed to apply_hunks
    h_hunk,          \* the hunk
    h_out,           \* what find_hunk_start, the re-walk and apply_hunks gave
    \* ---- the build tracker ----
    tracker,         \* BuildTracker.tracks in memory: stage -> name -> FileTrack
    tracker_file,    \* the tracks stored in .reen/build_tracker.json
    proj,            \* drafts/, specifications/ and src/: path -> content
    t_out,           \* the last call of a tracker method and what it returned
    t_rec,           \* for each (stage, name): the input content at its last
                     \* record made while the output existed, until the stage
                     \* is cleared
    \* ---- one run of a stage driver (create_specification, ..) ----
    d_stage,         \* the stage the driver works on
    d_plan,          \* the execution plan: which nodes depend on which
    d_parallel,      \* executor.can_run_parallel()
    d_dry,           \* config.dry_run
    d_pc,            \* "idle", "decide", "tasks", "finish", "done"
    d_level,         \* the index of the level being processed
    d_todo,          \* the nodes of the level still to be looked at
    d_tasks,         \* the level's tasks: runnable, spawned or finished
    d_updated,       \* updated_in_run
    d_unspec,        \* had_unspecified
    d_result,        \* what the driver returned: "none", "ok", "err"
    d_failed,        \* the names whose transformation failed in this run
    d_skipped,       \* the names skipped as up to date in this run
    \* ---- the execution planner ----
    p_tree,          \* the Markdown files of both roots: path -> content
    p_fallback,      \* whether a fallback root is given
    p_selected,      \* selected_inputs
    p_pc,            \* "idle", "start", "levelize", "done"
    p_nodes,         \* nodes, in the order of the selected inputs
    p_edges,         \* edges[i]: the positions node i depends on
    p_components,    \* what strongly_connected_components returned
    p_remaining,     \* the components not yet put in a level
    p_levels,        \* levels
    \* ---- one call of resolve_dependency_closure ----
    c_pc,            \* "idle", "run", "done"
    c_node,          \* the node the closure is taken of
    c_order,         \* the order of the directory listings of this call
    c_queue,         \* queue
    c_seen,          \* seen_paths
    c_resolved,      \* resolved
    \* ---- one call of resolve_direct_dependencies ----
    r_pc,            \* "idle", "loop", "ok", "err"
    r_deps,          \* direct_dependencies
    r_exists,        \* the paths for which Path::exists holds
    r_unreadable,    \* those of them that read_to_string fails on
    r_next,          \* the position of the locator the loop is at
    r_seen,          \* seen
    r_resolved,      \* resolved
    \* ---- the file cache ----
    k_fs,            \* the cache files: path -> content
    k_last,          \* per path, the last call of set: its value and whether it wrote
    k_out,           \* the last call of get: its path and what it returned
    \* ---- two calls of AgentRunner::run on one cache key ----
    u_file,          \* the cache file of the key
    u_task           \* per task: where run is, what it read, got and returned

loop_vars == <<pc, dry_run, max_attempts, attempt, output, compile_log, agent_calls,
               applied, session_dir, attempt_files, patch_text, extracted,
               guardrail, files, files_before, result>>
guard_vars == <<g_diff, g_links, g_out, g_applied>>
hunk_vars == <<h_lines, h_hunk, h_out>>
apply_vars == <<a_file, a_want, a_diff, a_shift, a_out, hunk_vars>>
track_vars == <<tracker, tracker_file, proj, t_out, t_rec>>
drive_vars == <<d_stage, d_plan, d_parallel, d_dry, d_pc, d_level, d_todo, d_tasks,
                d_updated, d_unspec, d_result, d_failed, d_skipped>>
plan_vars == <<p_tree, p_fallback, p_selected, p_pc, p_nodes, p_edges, p_components,
               p_remaining, p_levels>>
closure_vars == <<c_pc, c_node, c_order, c_queue, c_seen, c_resolved>>
resolve_vars == <<r_pc, r_deps, r_exists, r_unreadable, r_next, r_seen, r_resolved>>
cache_vars == <<k_fs, k_last, k_out>>
run_vars == <<u_file, u_task>>
later_vars == <<plan_vars, closure_vars, resolve_vars, cache_vars, run_vars>>
rest_vars == <<apply_vars, track_vars, drive_vars, later_vars>>
vars == <<loop_vars, guard_vars, rest_vars>>

(***************************************************************************)
(* Generic helpers                                                         *)
(***************************************************************************)
Front(s) == SubSeq(s, 1, Len(s) - 1)
Last(s) == s[Len(s)]
Min(a, b) == IF a < b THEN a ELSE b
SatSub(a, b) == IF a > b THEN a - b ELSE 0

Rep(x, n) == [i \in 1..n |-> x]
MapSeq(s, F(_)) == [i \in 1..Len(s) |-> F(s[i])]

\* Index of the first element of s at or after i that is in set S; 0 if none.
IndexFrom(s, i, S) ==
    LET hits == {j \in i..Len(s) : s[j] \in S} IN
    IF hits = {} THEN 0 ELSE CHOOSE j \in hits : \A k \in hits : j <= k

\* The element of a singleton.
The(S) == CHOOSE x \in S : TRUE
Range(q) == {q[i] : i \in 1..Len(q)}

SelectCount(s, P(_)) == Cardinality({i \in 1..Len(s) : P(s[i])})

(***************************************************************************)
(* Paths                                                                   *)
(***************************************************************************)
None == <<>>                       \* Option::None of an Option<String>
EmptyPath == <<"">>                \* the empty string, as a path
DevNull == <<"", "dev", "null">>   \* "/dev/null"
CargoToml == <<"Cargo.toml">>

\* str::starts_with('/')
IsAbsolute(p) == Len(p) >= 2 /\ p[1] = ""
\* str::contains(".."): some component holds two dots in a row
HasDotDot(p) == \E i \in 1..Len(p) : p[i] \in {"..", "x..y"}
\* str::starts_with("<dir>/")
StartsWithDir(p, dir) == Len(p) >= 2 /\ p[1] = dir

(***************************************************************************)
(* Lines of a diff and parsed patches                                      *)
(***************************************************************************)
Line(k, t, n) == [k |-> k, t |-> t, n |-> n]
DiffGit == Line("diffgit", <<>>, 0)          \* "diff --git a/.. b/.."
NewFileMode == Line("newfile", <<>>, 0)      \* "new file mode 100644"
DeletedFileMode == Line("deleted", <<>>, 0)  \* "deleted file mode 100644"
OldLine(p) == Line("old", p, 0)              \* "--- <p>"
NewLine(p) == Line("new", p, 0)              \* "+++ <p>"
HunkHeader(n) == Line("hunk", <<>>, n)       \* "@@ -n,c +m,d @@"
BadHunkHeader == Line("badhunk", <<>>, 0)    \* "@@ " not matching the header regex
Ctx(t) == Line("ctx", t, 0)                  \* " <t>"
Add(t) == Line("add", t, 0)                  \* "+<t>"
Rem(t) == Line("rem", t, 0)                  \* "-<t>"
EmptyLine == Line("empty", <<>>, 0)          \* ""
NoNewline == Line("nonl", <<>>, 0)           \* "\ No newline at end of file"
Prose == Line("prose", <<>>, 0)              \* any other text
ProseGit == Line("prosegit", <<>>, 0)        \* text with "diff --git " inside the line

HunkLine(kind, text) == [kind |-> kind, text |-> text]

\* A line met inside a hunk is classified by its first character alone
\* (parse_unified_diff, the match on hl.chars().next()).
HunkLineOf(l) ==
    CASE l.k = "ctx" -> HunkLine("Context", l.t)
      [] l.k = "add" -> HunkLine("Add", l.t)
      [] l.k = "rem" -> HunkLine("Remove", l.t)
      [] l.k = "old" -> HunkLine("Remove", <<"--">> \o l.t)
      [] l.k = "new" -> HunkLine("Add", <<"++">> \o l.t)
      [] l.k = "empty" -> HunkLine("Context", <<>>)

\* extract_patch_path: the first whitespace-separated token after the prefix.
extract_patch_path(t) ==
    LET sp == IndexFrom(t, 1, {" "})
        tok == IF sp = 0 THEN t ELSE SubSeq(t, 1, sp - 1)
    IN IF tok = <<>> THEN EmptyPath ELSE tok

\* normalize_patch_path: None for /dev/null, else one leading a/ or b/ dropped.
normalize_patch_path(p) ==
    IF p = DevNull THEN None
    ELSE IF Len(p) >= 2 /\ p[1] \in {"a", "b"} THEN Tail(p)
    ELSE p

EmptyPatch == [old_path |-> None, new_path |-> None, hunks |-> <<>>,
               hunk_lines |-> <<>>, is_new_file |-> FALSE, is_deletion |-> FALSE]

\* The inner loop over the lines of one hunk: up to the next "diff --git " or
\* "@@ " line.  h collects the hunk's lines, flat the file patch's hunk_lines:
\* an empty line is a Context line of the hunk but is not pushed to hunk_lines;
\* "\ No newline" and lines starting with any other character are skipped.
InHunk(l) == l.k \in {"ctx", "add", "rem", "old", "new", "empty"}
InFlat(l) == l.k \in {"ctx", "add", "rem", "old", "new"}
ParseHunkBody(lines, i, flat) ==
    LET stop == {j \in i..Len(lines) : lines[j].k \in {"diffgit", "hunk", "badhunk"}}
        e == IF stop = {} THEN Len(lines) + 1
             ELSE CHOOSE j \in stop : \A k \in stop : j <= k
        body == SubSeq(lines, i, e - 1)
    IN [i |-> e,
        h |-> MapSeq(SelectSeq(body, InHunk), HunkLineOf),
        flat |-> flat \o MapSeq(SelectSeq(body, InFlat), HunkLineOf)]

\* The "@@ " branch: b is what ParseHunkBody returned for the hunk's lines.
WithHunk(fp, old_start, b) ==
    [ok |-> TRUE, i |-> b.i,
     fp |-> [fp EXCEPT !.hunks = Append(@, [old_start |-> old_start, lines |-> b.h]),
                       !.hunk_lines = b.flat]]

\* The "--- " branch, p being the extracted path.
WithOldPath(fp, p) ==
    IF p = DevNull THEN [fp EXCEPT !.old_path = None, !.is_new_file = TRUE]
    ELSE [fp EXCEPT !.old_path = p]

\* WithNewPath without the deletion flag for /dev/null (a fault the deletion
\* rule must notice).
WithNewPathNoFlag(fp, p) ==
    IF p = DevNull THEN [fp EXCEPT !.new_path = None]
    ELSE [fp EXCEPT !.new_path = p]

\* The "+++ " branch, p being the extracted path.
WithNewPath(fp, p) ==
    IF p = DevNull THEN [fp EXCEPT !.new_path = None, !.is_deletion = TRUE]
    ELSE [fp EXCEPT !.new_path = p]

\* One step of the loop over the lines of a file patch: the line l at index i
\* is consumed; [ok |-> FALSE] is the Err of parse_hunk_header.
HeaderStep(lines, i, l, fp) ==
    CASE l.k = "newfile" -> [ok |-> TRUE, i |-> i + 1, fp |-> [fp EXCEPT !.is_new_file = TRUE]]
      [] l.k = "deleted" -> [ok |-> TRUE, i |-> i + 1, fp |-> [fp EXCEPT !.is_deletion = TRUE]]
      [] l.k = "old" ->
            [ok |-> TRUE, i |-> i + 1, fp |-> WithOldPath(fp, extract_patch_path(l.t))]
      [] l.k = "new" ->
            [ok |-> TRUE, i |-> i + 1, fp |-> WithNewPath(fp, extract_patch_path(l.t))]
      [] l.k = "hunk" ->
            WithHunk(fp, l.n, ParseHunkBody(lines, i + 1, fp.hunk_lines))
      [] l.k = "badhunk" -> [ok |-> FALSE, i |-> i, fp |-> fp]
      [] OTHER -> [ok |-> TRUE, i |-> i + 1, fp |-> fp]

\* The loop over the lines of one file patch, after its "diff --git " line.
RECURSIVE ParseFilePatch(_, _, _)
AfterHeaderStep(lines, st) ==
    IF st.ok THEN ParseFilePatch(lines, st.i, st.fp) ELSE st
ParseFilePatch(lines, i, fp) ==
    IF i > Len(lines) \/ lines[i].k = "diffgit"
    THEN [ok |-> TRUE, i |-> i, fp |-> fp]
    ELSE The({AfterHeaderStep(lines, st) : st \in {HeaderStep(lines, i, lines[i], fp)}})

NormalizePatch(fp) ==
    [fp EXCEPT !.old_path = IF @ = None THEN None ELSE normalize_patch_path(@),
               !.new_path = IF @ = None THEN None ELSE normalize_patch_path(@)]

\* The outer loop: lines before the first "diff --git " are skipped.
RECURSIVE ParsePatches(_, _, _)
AfterFilePatch(lines, patches, r) ==
    IF ~r.ok THEN [ok |-> FALSE, patches |-> <<>>]
    ELSE ParsePatches(lines, r.i, Append(patches, NormalizePatch(r.fp)))
ParsePatches(lines, i, patches) ==
    IF i > Len(lines) THEN [ok |-> TRUE, patches |-> patches]
    ELSE IF lines[i].k # "diffgit" THEN ParsePatches(lines, i + 1, patches)
    ELSE The({AfterFilePatch(lines, patches, r) :
                r \in {ParseFilePatch(lines, i + 1, EmptyPatch)}})

\* parse_unified_diff: Err on a malformed hunk header or when no file patch
\* was found.
NonEmptyParse(r) ==
    IF r.ok /\ r.patches # <<>> THEN r ELSE [ok |-> FALSE, patches |-> <<>>]
parse_unified_diff(diff) == The({NonEmptyParse(r) : r \in {ParsePatches(diff, 1, <<>>)}})

(***************************************************************************)
(* Public-function signatures (the guardrails' heuristics)                 *)
(*                                                                         *)
(* A source line is a token sequence such as                               *)
(*   <<"pub", "fn", "get", "(", "&self", ",", "x", ":", "&", "T", ")",     *)
(*     "->", "T", "{">>                                                    *)
(* with "pub(crate)" written <<"pub", "(", "crate", ")">>.                 *)
(***************************************************************************)
\* public_fn_re: ^\s*pub(\s*\(crate\))?\s+fn\s+
public_fn_re(t) ==
    \/ Len(t) >= 3 /\ t[1] = "pub" /\ t[2] = "fn"
    \/ Len(t) >= 6 /\ t[1] = "pub" /\ t[2] = "(" /\ t[3] = "crate" /\ t[4] = ")"
       /\ t[5] = "fn"

\* stub_macro_re: \b(todo!\s*\(|unimplemented!\s*\(|compile_error!\s*\()
stub_macro_re(t) ==
    \E i \in 1..(Len(t) - 1) :
        t[i] \in {"todo!", "unimplemented!", "compile_error!"} /\ t[i + 1] = "("

\* str::split(',') on a token sequence.
RECURSIVE SplitComma(_)
SplitComma(t) ==
    LET c == IndexFrom(t, 1, {","}) IN
    IF c = 0 THEN <<t>>
    ELSE <<SubSeq(t, 1, c - 1)>> \o SplitComma(SubSeq(t, c + 1, Len(t)))

ReceiverOf(params) ==
    IF params = <<>> THEN "Other"
    ELSE CASE params[1] = <<"&self">> -> "RefSelf"
           [] params[1] = <<"self">> -> "ValSelf"
           [] params[1] = <<"&mut", "self">> -> "MutRefSelf"
           [] params[1] = <<"mut", "self">> -> "MutValSelf"
           [] OTHER -> "Other"

SelfReceivers == {"RefSelf", "ValSelf", "MutRefSelf", "MutValSelf"}
MutReceivers == {"MutRefSelf", "MutValSelf"}

\* The type of one parameter: what follows its first ':' if there is one.
ParamType(p) ==
    LET c == IndexFrom(p, 1, {":"}) IN
    IF c = 0 THEN p ELSE SubSeq(p, c + 1, Len(p))

RECURSIVE ParamTypes(_)
ParamTypes(params) ==
    IF params = <<>> THEN <<>>
    ELSE LET ty == ParamType(Head(params)) IN
         (IF ty = <<>> THEN <<>> ELSE <<ty>>) \o ParamTypes(Tail(params))

NoSig == [some |-> FALSE, name |-> <<>>, receiver |-> "Other",
          non_self_param_types |-> <<>>, return_type |-> None]

\* The return type: what follows "->" up to the first '{', else up to
\* " where ", else up to the end of the line; None when that is empty.
ReturnTypeUpTo(t, arrow, brace, where) ==
    SubSeq(t, arrow + 1,
           (IF brace # 0 THEN brace ELSE IF where # 0 THEN where ELSE Len(t) + 1) - 1)
ReturnTypeOf(t, arrow) ==
    IF arrow = 0 THEN None
    ELSE ReturnTypeUpTo(t, arrow, IndexFrom(t, arrow + 1, {"{"}),
                        IndexFrom(t, arrow + 1, {"where"}))

\* The receiver position is dropped from the parameters if it is a self.
FnSig(name, receiver, params, rt) ==
    [some |-> TRUE, name |-> name, receiver |-> receiver,
     non_self_param_types |->
         ParamTypes(IF params # <<>> /\ receiver \in SelfReceivers
                    THEN Tail(params) ELSE params),
     return_type |-> rt]

SigWithParams(t, name, close_paren, params) ==
    FnSig(name, ReceiverOf(params), params,
          ReturnTypeOf(t, IndexFrom(t, close_paren + 1, {"->"})))

SigWithParens(t, name_end, name, open_paren, close_paren) ==
    IF name_end = 0 \/ name = <<>> \/ close_paren = 0 THEN NoSig
    ELSE SigWithParams(t, name, close_paren,
             IF SubSeq(t, open_paren + 1, close_paren - 1) = <<>> THEN <<>>
             ELSE SplitComma(SubSeq(t, open_paren + 1, close_paren - 1)))

SigAfterFn(t, fn_pos, name_end, open_paren) ==
    SigWithParens(t, name_end, SubSeq(t, fn_pos + 1, name_end - 1), open_paren,
                  IndexFrom(t, open_paren + 1, {")"}))

\* parse_pub_fn_signature.  The name ends at the first '(' after "fn ", but
\* open_paren is the first '(' of the whole line (trimmed.find('(')), and
\* the parameters are what stands between it and the next ')'.
parse_pub_fn_signature(t) ==
    IF ~public_fn_re(t) THEN NoSig
    ELSE SigAfterFn(t, IndexFrom(t, 1, {"fn"}),
                    IndexFrom(t, IndexFrom(t, 1, {"fn"}) + 1, {"("}),
                    IndexFrom(t, 1, {"("}))

\* str::starts_with("set_") on a function name
StartsWithSet(name) == name # <<>> /\ name[1] \in {"set_x", "set_"}

is_allowed_new_public_method(sig) ==
    IF StartsWithSet(sig.name) THEN FALSE
    ELSE IF sig.receiver \in MutReceivers THEN FALSE
    ELSE IF sig.name \in {<<"new">>, <<"try_new">>} THEN sig.receiver = "Other"
    ELSE sig.non_self_param_types = <<>>

\* strip_top_level_ref: one leading '&', an optional lifetime, all whitespace.
strip_top_level_ref(ty) ==
    IF ty # <<>> /\ ty[1] \in {"&", "&mut"}
    THEN LET head == IF ty[1] = "&mut" THEN <<"mut">> ELSE <<>>
             rest == Tail(ty)
         IN IF head = <<>> /\ rest # <<>> /\ rest[1] \in {"'a", "'static"}
            THEN Tail(rest) ELSE head \o rest
    ELSE ty

is_ref_value_equivalent(a, b) ==
    IF (\E i \in 1..Len(a) : a[i] = "&mut") \/ (\E i \in 1..Len(b) : b[i] = "&mut")
    THEN FALSE
    ELSE strip_top_level_ref(a) = strip_top_level_ref(b)

\* disallowed_pub_fn_modification: the reason, or "" for None.
disallowed_pub_fn_modification(old, new) ==
    IF old.name # new.name THEN "function name changed"
    ELSE IF old.receiver \in MutReceivers \/ new.receiver \in MutReceivers
    THEN "introduces mutable receiver"
    ELSE IF Len(old.non_self_param_types) # Len(new.non_self_param_types)
    THEN "parameter count changed"
    ELSE IF \E i \in 1..Len(old.non_self_param_types) :
               ~is_ref_value_equivalent(old.non_self_param_types[i],
                                        new.non_self_param_types[i])
    THEN "parameter type changed beyond &T<->T"
    ELSE IF old.return_type = None /\ new.return_type = None THEN ""
    ELSE IF old.return_type # None /\ new.return_type # None
    THEN (IF is_ref_value_equivalent(old.return_type, new.return_type)
          THEN "" ELSE "return type changed beyond &T<->T")
    ELSE "return type presence changed"

Issue(kind, path, name, n) == [kind |-> kind, path |-> path, name |-> name, n |-> n]

\* evaluate_public_api_changes.  The issues are a set: their order in the
\* code's Vec follows the iteration order of a HashSet of names.
evaluate_public_api_changes(target, removed, added) ==
    LET names == {removed[i].name : i \in 1..Len(removed)}
                 \cup {added[i].name : i \in 1..Len(added)}
        rs(nm) == {i \in 1..Len(removed) : removed[i].name = nm}
        as(nm) == {i \in 1..Len(added) : added[i].name = nm}
        one(s) == CHOOSE i \in s : TRUE
        IssueOf(nm) ==
            IF Cardinality(rs(nm)) > 1 \/ Cardinality(as(nm)) > 1
            THEN {Issue("multiple signature edits", target, nm, 0)}
            ELSE IF rs(nm) # {} /\ as(nm) = {}
            THEN {Issue("removes public function", target, nm, 0)}
            ELSE IF rs(nm) = {} /\ as(nm) # {}
            THEN (IF is_allowed_new_public_method(added[one(as(nm))]) THEN {}
                  ELSE {Issue("adds new public function", target, nm, 0)})
            ELSE IF disallowed_pub_fn_modification(removed[one(rs(nm))],
                                                   added[one(as(nm))]) = ""
            THEN {}
            ELSE {Issue("modifies public function", target, nm, 0)}
    IN UNION {IssueOf(nm) : nm \in names}

(***************************************************************************)
(* check_guardrails                                                        *)
(***************************************************************************)
MaxDeletedLines == 200

\* `target` of check_guardrails: the new path unless it is empty, else the old.
GuardTarget(fp) ==
    LET path == IF fp.new_path = None THEN EmptyPath ELSE fp.new_path
        old == IF fp.old_path = None THEN EmptyPath ELSE fp.old_path
    IN IF path # EmptyPath THEN path ELSE old

\* PatchStage without the surface-area test of lines 466-472 (a fault the
\* path rules must notice).
PatchStageNoSurface(fp) ==
    IF fp.is_deletion THEN "deletion"
    ELSE IF GuardTarget(fp) = EmptyPath THEN "empty"
    ELSE IF IsAbsolute(GuardTarget(fp)) \/ HasDotDot(GuardTarget(fp)) THEN "outside"
    ELSE IF StartsWithDir(GuardTarget(fp), "drafts")
            \/ StartsWithDir(GuardTarget(fp), "specifications")
    THEN "protected"
    ELSE "checked"

\* Where the loop body over one file patch ends: at one of its `continue`s
\* ("deletion", "empty", "outside", "protected", "surface") or at its end.
PatchStage(fp) ==
    LET target == GuardTarget(fp) IN
    IF fp.is_deletion THEN "deletion"
    ELSE IF target = EmptyPath THEN "empty"
    ELSE IF IsAbsolute(target) \/ HasDotDot(target) THEN "outside"
    ELSE IF StartsWithDir(target, "drafts") \/ StartsWithDir(target, "specifications")
    THEN "protected"
    ELSE IF target # CargoToml /\ ~StartsWithDir(target, "src") THEN "surface"
    ELSE "checked"

\* removed_pub_fns / added_pub_fns: the signatures parsed from the Remove
\* (Add) lines that match public_fn_re, in order.
PubFnSigs(hls, kind) ==
    LET Hit(hl) == /\ hl.kind = kind
                   /\ public_fn_re(hl.text)
                   /\ parse_pub_fn_signature(hl.text).some
        SigOf(hl) == parse_pub_fn_signature(hl.text)
    IN MapSeq(SelectSeq(hls, Hit), SigOf)

IsRemove(hl) == hl.kind = "Remove"

\* The issues one file patch adds inside the loop.
PatchIssuesAt(links, fp, target, stage) ==
    CASE stage = "deletion" ->
            {Issue("File deletion is not allowed",
                   IF fp.old_path = None THEN EmptyPath ELSE fp.old_path, <<>>, 0)}
      [] stage = "empty" -> {Issue("Patch contains an empty path", EmptyPath, <<>>, 0)}
      [] stage = "outside" -> {Issue("Blocked path (outside repo)", target, <<>>, 0)}
      [] stage = "protected" ->
            {Issue("Blocked path (protected directory)", target, <<>>, 0)}
      [] stage = "surface" ->
            {Issue("Blocked path (outside allowed surface area)", target, <<>>, 0)}
      [] OTHER ->
            (IF fp.is_new_file /\ ~StartsWithDir(target, "src")
             THEN {Issue("New file outside src/ is not allowed", target, <<>>, 0)}
             ELSE {})
            \cup evaluate_public_api_changes(target,
                     PubFnSigs(fp.hunk_lines, "Remove"),
                     PubFnSigs(fp.hunk_lines, "Add"))
            \cup (IF target \in links
                  THEN {Issue("Blocked path (outside repo after resolve)",
                              target, <<>>, 0)}
                  ELSE {})

PatchIssues(links, fp) == PatchIssuesAt(links, fp, GuardTarget(fp), PatchStage(fp))

\* total_deleted_lines: Remove lines of the file patches that reach the scan
\* of hunk_lines (a patch that left the loop body by `continue` adds none).
RECURSIVE TotalDeletedLines(_)
TotalDeletedLines(patches) ==
    IF patches = <<>> THEN 0
    ELSE (IF PatchStage(Head(patches)) = "checked"
          THEN SelectCount(Head(patches).hunk_lines, IsRemove) ELSE 0)
         + TotalDeletedLines(Tail(patches))

NoReport == [ok |-> FALSE, issues |-> {}, touched_files |-> {},
             touches_cargo_toml |-> FALSE, adds_files |-> {},
             modifies_public_fn_lines |-> FALSE, adds_stub_macros |-> FALSE,
             deleted_files |-> {}, total_deleted_lines |-> 0]

\* The file patches that run the loop body to its end, by index.
CheckedPatches(ps) == {i \in 1..Len(ps) : PatchStage(ps[i]) = "checked"}

AddsStubMacros(ps, checked) ==
    \E i \in checked : \E j \in 1..Len(ps[i].hunk_lines) :
        /\ ps[i].hunk_lines[j].kind = "Add"
        /\ stub_macro_re(ps[i].hunk_lines[j].text)

\* The GuardrailReport.  issues, touched_files, adds_files and deleted_files
\* are sets: the order and the repetitions of the code's Vecs are left out.
ReportOf(ps, checked, issues, stubs, total) ==
    [ok |-> issues = {},
     issues |-> issues,
     touched_files |-> {GuardTarget(ps[i]) : i \in checked},
     touches_cargo_toml |-> \E i \in checked : GuardTarget(ps[i]) = CargoToml,
     adds_files |-> {GuardTarget(ps[i]) : i \in
                       {j \in checked : ps[j].is_new_file
                           /\ StartsWithDir(GuardTarget(ps[j]), "src")}},
     modifies_public_fn_lines |->
         \E i \in checked : \E j \in 1..Len(ps[i].hunk_lines) :
             /\ ps[i].hunk_lines[j].kind \in {"Add", "Remove"}
             /\ public_fn_re(ps[i].hunk_lines[j].text),
     adds_stub_macros |-> stubs,
     deleted_files |-> {IF ps[i].old_path = None THEN EmptyPath ELSE ps[i].old_path :
                        i \in {j \in 1..Len(ps) : ps[j].is_deletion}},
     total_deleted_lines |-> total]

\* The two checks after the loop add their issues to those of the loop.
ReportWith(ps, checked, loop_issues, stubs, total) ==
    ReportOf(ps, checked,
             loop_issues
             \cup (IF stubs THEN {Issue("Patch introduces stub/bypass macros",
                                        EmptyPath, <<>>, 0)} ELSE {})
             \cup (IF total > MaxDeletedLines
                   THEN {Issue("Patch deletes too many lines", EmptyPath, <<>>, total)}
                   ELSE {}),
             stubs, total)

GuardReport(links, ps) ==
    ReportWith(ps, CheckedPatches(ps),
               UNION {PatchIssues(links, ps[i]) : i \in 1..Len(ps)},
               AddsStubMacros(ps, CheckedPatches(ps)),
               TotalDeletedLines(ps))

\* check_guardrails(project_root, diff): [parsed |-> FALSE] is its Err
\* ("Invalid unified diff"), else the GuardrailReport.  `links` are the
\* targets whose canonical path lies outside the canonical project root.
GuardResult(links, parsed) ==
    IF ~parsed.ok THEN [parsed |-> FALSE, report |-> NoReport]
    ELSE [parsed |-> TRUE, report |-> GuardReport(links, parsed.patches)]
check_guardrails(links, diff) ==
    The({GuardResult(links, parsed) : parsed \in {parse_unified_diff(diff)}})

(***************************************************************************)
(* The diff applier                                                        *)
(*                                                                         *)
(* A file's content is [lines, nl]: the lines str::split_terminator('\n')  *)
(* yields and whether the text ends with '\n'.  A carriage return at the   *)
(* end of a line is the token "\r".  The project tree `files` maps the     *)
(* paths of the existing regular files to their contents; a proper prefix  *)
(* of such a path is a directory.                                          *)
(***************************************************************************)
Fuzz == 100

Content(lines, nl) == [lines |-> lines, nl |-> nl]

\* The content whose text is the given lines joined with '\n' (no '\n' added
\* at the end): a last empty line is the text's final '\n'.
join_lines(lines) ==
    IF lines # <<>> /\ Last(lines) = <<>>
    THEN (IF Len(lines) = 1 THEN Content(<<>>, FALSE) ELSE Content(Front(lines), TRUE))
    ELSE Content(lines, FALSE)

StripCR(l) == IF l # <<>> /\ Last(l) = "\r" THEN Front(l) ELSE l

\* split_lines_preserve_empty
split_lines_preserve_empty(c) == MapSeq(c.lines, StripCR)

IsPreimage(hl) == hl.kind \in {"Context", "Remove"}
TextOf(hl) == hl.text

\* hunk_preimage_pattern: the context and remove lines, in order.
hunk_preimage_pattern(h) == MapSeq(SelectSeq(h.lines, IsPreimage), TextOf)

\* A search that takes the lowest match in the file whatever the preferred
\* position is.
FindLowestMatch(lines, pattern, preferred) ==
    LET hits == {i \in 0..SatSub(Len(lines), Len(pattern)) :
                   /\ i + Len(pattern) <= Len(lines)
                   /\ \A j \in 1..Len(pattern) : lines[i + j] = pattern[j]}
    IN IF hits = {} THEN [some |-> FALSE, at |-> 0]
       ELSE [some |-> TRUE, at |-> CHOOSE i \in hits : \A k \in hits : i <= k]

\* find_hunk_start, with 0-based positions as in the code; [some |-> FALSE]
\* is None.
find_hunk_start(lines, pattern, preferred) ==
    LET try_at(i) == /\ i + Len(pattern) <= Len(lines)
                     /\ \A j \in 1..Len(pattern) : lines[i + j] = pattern[j]
        least(S) == CHOOSE i \in S : \A k \in S : i <= k
        last == SatSub(Len(lines), Len(pattern))
        window == {i \in SatSub(preferred, Fuzz)..Min(preferred + Fuzz, last) : try_at(i)}
        full == {i \in 0..last : try_at(i)}
    IN IF pattern = <<>> THEN [some |-> TRUE, at |-> Min(preferred, Len(lines))]
       ELSE IF Len(lines) < Len(pattern) THEN [some |-> FALSE, at |-> 0]
       ELSE IF try_at(preferred) THEN [some |-> TRUE, at |-> preferred]
       ELSE IF window # {} THEN [some |-> TRUE, at |-> least(window)]
       ELSE IF full # {} THEN [some |-> TRUE, at |-> least(full)]
       ELSE [some |-> FALSE, at |-> 0]

\* The re-walk of one hunk from position pos (0-based) of `current`.
RECURSIVE WalkHunk(_, _, _, _)
WalkHunk(current, hls, pos, segment) ==
    IF hls = <<>> THEN [ok |-> TRUE, pos |-> pos, segment |-> segment]
    ELSE LET hl == Head(hls) IN
         IF hl.kind = "Add"
         THEN WalkHunk(current, Tail(hls), pos, Append(segment, hl.text))
         ELSE IF pos >= Len(current) \/ current[pos + 1] # hl.text
         THEN [ok |-> FALSE, pos |-> pos, segment |-> segment]
         ELSE WalkHunk(current, Tail(hls), pos + 1,
                       IF hl.kind = "Context" THEN Append(segment, current[pos + 1])
                       ELSE segment)

\* apply_hunks: [ok |-> FALSE] is Err (no position found, or a mismatch in
\* the re-walk).
RECURSIVE apply_hunks(_, _)
\* A splice that puts the segment in at the position found and keeps the
\* lines of the pre-image after it.
SpliceKeepingPreimage(current, hunks, start, w) ==
    IF ~w.ok THEN [ok |-> FALSE, lines |-> current]
    ELSE The({apply_hunks(next, hunks) :
                next \in {SubSeq(current, 1, start) \o w.segment
                          \o SubSeq(current, start + 1, Len(current))}})
Splice(current, hunks, start, w) ==
    IF ~w.ok THEN [ok |-> FALSE, lines |-> current]
    ELSE The({apply_hunks(next, hunks) :
                next \in {SubSeq(current, 1, start) \o w.segment
                          \o SubSeq(current, w.pos + 1, Len(current))}})
ApplyHunkAt(current, h, hunks, start) ==
    IF ~start.some THEN [ok |-> FALSE, lines |-> current]
    ELSE The({Splice(current, hunks, start.at, w) :
                w \in {WalkHunk(current, h.lines, start.at, <<>>)}})
apply_hunks(current, hunks) ==
    IF hunks = <<>> THEN [ok |-> TRUE, lines |-> current]
    ELSE The({ApplyHunkAt(current, Head(hunks), Tail(hunks), start) :
                start \in {find_hunk_start(current, hunk_preimage_pattern(Head(hunks)),
                                           SatSub(Head(hunks).old_start, 1))}})

IsDirectory(fs, p) == \/ p = EmptyPath
                      \/ \E q \in DOMAIN fs : Len(q) > Len(p) /\ SubSeq(q, 1, Len(p)) = p
UnderFile(fs, p) == \E q \in DOMAIN fs : Len(q) < Len(p) /\ SubSeq(p, 1, Len(q)) = q

WriteFile(fs, p, c) == [q \in DOMAIN fs \cup {p} |-> IF q = p THEN c ELSE fs[q]]

\* The loop of apply_unified_diff over the file patches: each file is read,
\* patched in memory and written before the next patch is looked at.
\* A target that is the old path whenever there is one.
ApplyTargetOldFirst(fp) == IF fp.old_path # None THEN fp.old_path ELSE fp.new_path
ApplyTarget(fp) == IF fp.new_path # None THEN fp.new_path ELSE fp.old_path
ReadOrEmpty(fs, target) ==
    IF target \in DOMAIN fs THEN fs[target] ELSE Content(<<>>, FALSE)

RECURSIVE ApplyPatches(_, _)
\* A write that is taken back when a later file patch fails.
WriteOrRollBack(fs, target, rest, r) ==
    IF ~r.ok THEN [ok |-> FALSE, files |-> fs]
    ELSE The({IF later.ok THEN later ELSE [ok |-> FALSE, files |-> fs] :
                later \in {ApplyPatches(WriteFile(fs, target, join_lines(r.lines)),
                                        rest)}})
WritePatched(fs, target, rest, r) ==
    IF ~r.ok THEN [ok |-> FALSE, files |-> fs]
    ELSE The({ApplyPatches(written, rest) :
                written \in {WriteFile(fs, target, join_lines(r.lines))}})
ApplyFilePatch(fs, fp, target, rest) ==
    IF \/ fp.is_deletion
       \/ target = None
       \/ IsDirectory(fs, target)
       \/ UnderFile(fs, target)
    THEN [ok |-> FALSE, files |-> fs]
    ELSE The({WritePatched(fs, target, rest, r) :
                r \in {The({apply_hunks(original, fp.hunks) :
                               original \in {split_lines_preserve_empty(
                                                 ReadOrEmpty(fs, target))}})}})
ApplyPatches(fs, patches) ==
    IF patches = <<>> THEN [ok |-> TRUE, files |-> fs]
    ELSE ApplyFilePatch(fs, Head(patches), ApplyTarget(Head(patches)), Tail(patches))

\* apply_unified_diff(project_root, diff): the tree afterwards, and whether
\* it returned Ok.
ApplyParsed(fs, parsed) ==
    IF ~parsed.ok THEN [ok |-> FALSE, files |-> fs]
    ELSE ApplyPatches(fs, parsed.patches)
apply_unified_diff(fs, diff) ==
    The({ApplyParsed(fs, parsed) : parsed \in {parse_unified_diff(diff)}})

(***************************************************************************)
(* extract_unified_diff                                                    *)
(***************************************************************************)
IndexOfKind(text, i, kinds) ==
    LET hits == {j \in i..Len(text) : text[j].k \in kinds} IN
    IF hits = {} THEN 0 ELSE CHOOSE j \in hits : \A k \in hits : j <= k

\* str::trim on a text: blank lines at its start and end are dropped.
RECURSIVE TrimText(_)
TrimText(text) ==
    IF text # <<>> /\ Head(text).k = "empty" THEN TrimText(Tail(text))
    ELSE IF text # <<>> /\ Last(text).k = "empty" THEN TrimText(Front(text))
    ELSE text

\* extract_unified_diff: from the first "diff --git " (wherever in a line it
\* is), else from the first "--- " that follows a line break, else the whole
\* text when it starts with "--- "; [some |-> FALSE] is None.
ExtractAt(text, g, o, t0) ==
    IF g # 0
    THEN [some |-> TRUE,
          diff |-> TrimText(<<DiffGit>> \o SubSeq(text, g + 1, Len(text)))]
    ELSE IF o # 0
    THEN [some |-> TRUE, diff |-> TrimText(SubSeq(text, o, Len(text)))]
    ELSE IF t0 # <<>> /\ t0[1].k = "old" THEN [some |-> TRUE, diff |-> t0]
    ELSE [some |-> FALSE, diff |-> <<>>]
extract_unified_diff(text) ==
    ExtractAt(text, IndexOfKind(text, 1, {"diffgit", "prosegit"}),
              IndexOfKind(text, 2, {"old"}), TrimText(text))

(***************************************************************************)
(* The compilation auto-fix loop: ensure_compiles_with_auto_fix            *)
(*                                                                         *)
(* The compiler and the agent are external: each compiler run succeeds,    *)
(* fails or cannot be started, and each agent call returns a Final text    *)
(* out of AgentTexts, Questions or an error.  Writes into the session      *)
(* directory are taken to succeed.                                         *)
(***************************************************************************)
MaxAttempts == 2

SrcM == <<"src", "m.rs">>
SrcN == <<"src", "n.rs">>
DraftD == <<"drafts", "d.md">>

InitialFiles ==
    (SrcM :> Content(<<(<<"a">>), (<<"b">>), (<<"c">>)>>, TRUE))
    @@ (CargoToml :> Content(<<(<<"[package]">>)>>, TRUE))

GitHeader(p) == <<DiffGit, OldLine(<<"a">> \o p), NewLine(<<"b">> \o p)>>

\* Adds a line at the top of src/m.rs: applies to any content.
TextAdd == <<Prose>> \o GitHeader(SrcM) \o <<HunkHeader(1), Add(<<"use", "x">>)>>
\* Replaces line b by d in src/m.rs, with one line of context.
TextEdit == GitHeader(SrcM) \o <<HunkHeader(1), Ctx(<<"a">>), Rem(<<"b">>), Add(<<"d">>)>>
\* Creates src/n.rs.
TextNew == <<DiffGit, NewFileMode, OldLine(DevNull), NewLine(<<"b">> \o SrcN),
             HunkHeader(0), Add(<<"n">>)>>
\* Deletes src/m.rs.
TextDelete == <<DiffGit, DeletedFileMode, OldLine(<<"a">> \o SrcM), NewLine(DevNull),
                HunkHeader(1), Rem(<<"a">>), Rem(<<"b">>), Rem(<<"c">>)>>
\* Touches the draft tree.
TextProtected == GitHeader(DraftD) \o <<HunkHeader(1), Add(<<"x">>)>>
\* Adds a stub macro.
TextStub == GitHeader(SrcM) \o <<HunkHeader(1), Add(<<"todo!", "(", ")">>)>>
\* No diff at all.
TextProse == <<Prose, EmptyLine, Prose>>
\* A malformed hunk header.
TextBadHunk == GitHeader(SrcM) \o <<BadHunkHeader, Add(<<"x">>)>>
\* A bare ---/+++ patch without a "diff --git " line.
TextBare == <<Prose, OldLine(<<"a">> \o SrcM), NewLine(<<"b">> \o SrcM),
              HunkHeader(1), Add(<<"use", "x">>)>>
\* A hunk whose context is nowhere in src/m.rs.
TextStale == GitHeader(SrcM) \o <<HunkHeader(1), Ctx(<<"zz">>), Add(<<"x">>)>>
\* Two file patches: Cargo.toml gets a line, then a stale hunk for src/m.rs.
TextTwo == GitHeader(CargoToml) \o <<HunkHeader(2), Add(<<"[dependencies]">>)>>
           \o GitHeader(SrcM) \o <<HunkHeader(1), Ctx(<<"zz">>), Add(<<"x">>)>>

AgentTexts == {TextAdd, TextEdit, TextNew, TextDelete, TextProtected, TextStub,
               TextProse, TextBadHunk, TextBare, TextStale, TextTwo}

CompilerOutcomes == {"ok", "fail", "exec_err"}

NoExtract == [some |-> FALSE, diff |-> <<>>]
NoGuardOut == [called |-> FALSE, parsed |-> FALSE, report |-> NoReport]

NoApplied == [called |-> FALSE, ok |-> FALSE, files |-> <<>>]
GuardIdle == g_diff = <<>> /\ g_links = {} /\ g_out = NoGuardOut /\ g_applied = NoApplied

\* apply_unified_diff has not been called on its own.
NoApplyOut == [called |-> FALSE, ok |-> FALSE, content |-> [lines |-> <<>>, nl |-> FALSE]]
NoHunkOut ==
    [called |-> FALSE, start |-> [some |-> FALSE, at |-> 0],
     walk |-> [ok |-> FALSE, pos |-> 0, segment |-> <<>>],
     ok |-> FALSE, lines |-> <<>>]
HunkIdle ==
    /\ h_lines = <<>>
    /\ h_hunk = [old_start |-> 0, lines |-> <<>>]
    /\ h_out = NoHunkOut
ApplyIdle ==
    /\ a_file = [lines |-> <<>>, nl |-> FALSE]
    /\ a_want = [lines |-> <<>>, nl |-> FALSE]
    /\ a_diff = <<>>
    /\ a_shift = 0
    /\ a_out = NoApplyOut
    /\ HunkIdle

(***************************************************************************)
(* BuildTracker (build_tracker.rs)                                         *)
(*                                                                         *)
(* A file's content is a version name or Missing; its SHA-256 is taken to  *)
(* be free of collisions.  A FileTrack is [input_hash, output_hash]; its   *)
(* timestamp is left out, no method reads it back.  A path is              *)
(* <<directory, name>> for <directory>/<name>.md (src/<name>.rs).          *)
(***************************************************************************)
Missing == "missing"
Contents == {"v1", "v2"}
Stages == {"Specification", "Implementation", "Tests", "Compile"}
TrackedNames == {"a", "b"}
AnyName == ""

Exists(f, path) == path \in DOMAIN f /\ f[path] # Missing
Sha256(c) == <<"sha256", c>>
EmptyHash == <<>>
\* hash_file: Err when the file cannot be read.
hash_file(f, path) ==
    IF Exists(f, path) THEN [ok |-> TRUE, hash |-> Sha256(f[path])]
    ELSE [ok |-> FALSE, hash |-> EmptyHash]

FileTrack(input_hash, output_hash) ==
    [input_hash |-> input_hash, output_hash |-> output_hash]
EmptyTracker == <<>>
HasTrack(tr, stage, name) == stage \in DOMAIN tr /\ name \in DOMAIN tr[stage]

\* needs_update without the test for the output file (a fault the rule for
\* a missing output must notice).
NeedsUpdateIgnoringOutput(tr, f, stage, name, input_path, output_path) ==
    IF stage \notin DOMAIN tr THEN "true"
    ELSE IF name \notin DOMAIN tr[stage] THEN "true"
    ELSE IF ~hash_file(f, input_path).ok THEN "err"
    ELSE IF hash_file(f, input_path).hash = tr[stage][name].input_hash THEN "false"
    ELSE "true"

\* needs_update: "true", "false", or "err" when the input cannot be hashed.
needs_update(tr, f, stage, name, input_path, output_path) ==
    IF ~Exists(f, output_path) THEN "true"
    ELSE IF stage \notin DOMAIN tr THEN "true"
    ELSE IF name \notin DOMAIN tr[stage] THEN "true"
    ELSE IF ~hash_file(f, input_path).ok THEN "err"
    ELSE IF hash_file(f, input_path).hash = tr[stage][name].input_hash THEN "false"
    ELSE "true"

\* upstream_changed.  Implementation and Tests look the record of `name` up
\* in the Specification stage and compare it with drafts/<name>.md; Compile
\* compares every Implementation record with contexts/<name>.md.
upstream_changed(tr, f, stage, name) ==
    CASE stage = "Specification" -> "false"
      [] stage \in {"Implementation", "Tests"} ->
            IF /\ HasTrack(tr, "Specification", name)
               /\ Exists(f, <<"drafts", name>>)
               /\ Sha256(f[<<"drafts", name>>]) # tr["Specification"][name].input_hash
            THEN "true" ELSE "false"
      [] stage = "Compile" ->
            IF /\ "Implementation" \in DOMAIN tr
               /\ \E n \in DOMAIN tr["Implementation"] :
                      /\ Exists(f, <<"contexts", n>>)
                      /\ Sha256(f[<<"contexts", n>>]) # tr["Implementation"][n].input_hash
            THEN "true" ELSE "false"

\* InsertTrack into a stage map made anew (a fault the records of the other
\* names must notice).
InsertTrackAlone(tr, stage, name, track) ==
    [st \in DOMAIN tr \cup {stage} |->
        IF st = stage THEN [n \in {name} |-> track] ELSE tr[st]]

\* HashMap::insert of a FileTrack under tracks[stage][name].
InsertTrack(tr, stage, name, track) ==
    LET old == IF stage \in DOMAIN tr THEN tr[stage] ELSE <<>>
        new == [n \in DOMAIN old \cup {name} |-> IF n = name THEN track ELSE old[n]]
    IN [st \in DOMAIN tr \cup {stage} |-> IF st = stage THEN new ELSE tr[st]]

\* record: Err, the tracker unchanged, when the input cannot be hashed; the
\* output-hash is empty when the output does not exist.
record(tr, f, stage, name, input_path, output_path) ==
    IF ~hash_file(f, input_path).ok THEN [ok |-> FALSE, tracks |-> tr]
    ELSE [ok |-> TRUE,
          tracks |-> InsertTrack(tr, stage, name,
                         FileTrack(hash_file(f, input_path).hash,
                                   IF Exists(f, output_path)
                                   THEN hash_file(f, output_path).hash
                                   ELSE EmptyHash))]

WithoutStage(tr, stage) == [st \in DOMAIN tr \ {stage} |-> tr[st]]
\* clear_stage that drops every stage (a fault the frame of clear_stage must
\* notice).
ClearEveryStage(tr, stage) ==
    [removed |-> IF stage \in DOMAIN tr THEN Cardinality(DOMAIN tr[stage]) ELSE 0,
     tracks |-> EmptyTracker]

\* clear_stage: the stage's map is removed, its size returned.
clear_stage(tr, stage) ==
    [removed |-> IF stage \in DOMAIN tr THEN Cardinality(DOMAIN tr[stage]) ELSE 0,
     tracks |-> WithoutStage(tr, stage)]

\* The paths the stage drivers hand to the tracker (cli/mod.rs):
\* drafts/<n>.md -> specifications/<n>.md -> src/<n>.rs.
InputPath(stage, name) ==
    IF stage = "Specification" THEN <<"drafts", name>> ELSE <<"specifications", name>>
OutputPath(stage, name) ==
    IF stage = "Specification" THEN <<"specifications", name>> ELSE <<"src", name>>

NoCall == [op |-> "none", stage |-> "", name |-> "", result |-> ""]
Call(op, stage, name, returned) ==
    [op |-> op, stage |-> stage, name |-> name, result |-> returned]
Keys == {<<st, n>> : st \in {"Specification", "Implementation"}, n \in TrackedNames}
NeverRecorded == [k \in Keys |-> "none"]

TrackerIdle ==
    /\ tracker = EmptyTracker
    /\ tracker_file = EmptyTracker
    /\ proj = <<>>
    /\ t_out = NoCall
    /\ t_rec = NeverRecorded

\* No stage driver is running.
DriverIdle ==
    /\ d_stage = "Specification"
    /\ d_plan = "chain"
    /\ d_parallel = FALSE
    /\ d_dry = FALSE
    /\ d_pc = "idle"
    /\ d_level = 0
    /\ d_todo = <<>>
    /\ d_tasks = <<>>
    /\ d_updated = {}
    /\ d_unspec = FALSE
    /\ d_result = "none"
    /\ d_failed = {}
    /\ d_skipped = {}

\* No plan is being built.
PlanIdle ==
    /\ p_tree = <<>>
    /\ p_fallback = FALSE
    /\ p_selected = <<>>
    /\ p_pc = "idle"
    /\ p_nodes = <<>>
    /\ p_edges = <<>>
    /\ p_components = <<>>
    /\ p_remaining = {}
    /\ p_levels = <<>>
\* No dependency closure is being taken.
ClosureIdle ==
    /\ c_pc = "idle"
    /\ c_node = <<>>
    /\ c_order = "up"
    /\ c_queue = <<>>
    /\ c_seen = {}
    /\ c_resolved = <<>>
\* No call of resolve_direct_dependencies is under way.
ResolveIdle ==
    /\ r_pc = "idle"
    /\ r_deps = <<>>
    /\ r_exists = {}
    /\ r_unreadable = {}
    /\ r_next = 0
    /\ r_seen = {}
    /\ r_resolved = <<>>
\* No cache is in use.
CacheIdle ==
    /\ k_fs = <<>>
    /\ k_last = <<>>
    /\ k_out = <<>>
\* No agent is being run.
RunIdle ==
    /\ u_file = <<>>
    /\ u_task = <<>>
LaterIdle == PlanIdle /\ ClosureIdle /\ ResolveIdle /\ CacheIdle /\ RunIdle

RestIdle == ApplyIdle /\ TrackerIdle /\ DriverIdle /\ LaterIdle

LoopInit ==
    /\ pc = "start"
    /\ dry_run \in BOOLEAN
    /\ max_attempts \in 0..MaxAttempts
    /\ attempt = 0
    /\ output = "none"
    /\ compile_log = <<>>
    /\ agent_calls = 0
    /\ applied = 0
    /\ session_dir = FALSE
    /\ attempt_files = <<>>
    /\ patch_text = <<>>
    /\ extracted = NoExtract
    /\ guardrail = NoReport
    /\ files = InitialFiles
    /\ files_before = InitialFiles
    /\ result = "none"
    /\ GuardIdle
    /\ RestIdle

\* Return from ensure_compiles_with_auto_fix with result r.
Return(r) == pc' = "done" /\ result' = r

\* fs::write(attempt_dir.join(name), ..) for each name in names
WriteAttempt(names) ==
    attempt_files' = [attempt_files EXCEPT ![attempt] = @ \cup names]

\* Lines 51-53: a dry run returns Ok at once.
Start ==
    /\ pc = "start"
    /\ IF dry_run THEN Return("ok") ELSE pc' = "compile" /\ result' = result
    /\ UNCHANGED <<dry_run, max_attempts, attempt, output, compile_log, agent_calls,
                   applied, session_dir, attempt_files, patch_text, extracted,
                   guardrail, files, files_before, guard_vars, rest_vars>>

\* The loop head with the range 0..=max_attempts (a fault the attempt bound
\* must notice).
NextAttemptInclusive(a) ==
    IF a <= max_attempts
    THEN /\ attempt' = a + 1
         /\ pc' = "ask"
         /\ result' = result
    ELSE /\ attempt' = a
         /\ Return("exhausted")

\* The loop head of a do-while loop: the first attempt is always made (a
\* fault the empty budget must notice).
NextAttemptAtLeastOnce(a) ==
    IF a < max_attempts \/ a = 0
    THEN /\ attempt' = a + 1
         /\ pc' = "ask"
         /\ result' = result
    ELSE /\ attempt' = a
         /\ Return("exhausted")

\* The head of the for loop over 1..=max_attempts, entered with attempt a
\* done: start attempt a + 1 or leave the loop with the final bail.
NextAttempt(a) ==
    IF a < max_attempts
    THEN /\ attempt' = a + 1
         /\ pc' = "ask"
         /\ result' = result
    ELSE /\ attempt' = a
         /\ Return("exhausted")

\* Compile with the session directory created before the first compiler run
\* (a fault the success path must notice).
CompileSessionFirst ==
    /\ pc = "compile"
    /\ session_dir' = TRUE
    /\ \E o \in CompilerOutcomes :
        /\ compile_log' = Append(compile_log, o)
        /\ CASE o = "exec_err" ->
                    /\ Return("compiler_error")
                    /\ UNCHANGED <<output, attempt>>
             [] o = "ok" ->
                    /\ output' = "ok"
                    /\ Return("ok")
                    /\ UNCHANGED attempt
             [] o = "fail" ->
                    /\ output' = "fail"
                    /\ NextAttempt(0)
    /\ UNCHANGED <<dry_run, max_attempts, agent_calls, applied, attempt_files,
                   patch_text, extracted, guardrail, files, files_before, guard_vars, rest_vars>>

\* S0, lines 55-70: the initial compile; on failure the session directory.
Compile ==
    /\ pc = "compile"
    /\ \E o \in CompilerOutcomes :
        /\ compile_log' = Append(compile_log, o)
        /\ CASE o = "exec_err" ->
                    /\ Return("compiler_error")
                    /\ UNCHANGED <<output, session_dir, attempt>>
             [] o = "ok" ->
                    /\ output' = "ok"
                    /\ Return("ok")
                    /\ UNCHANGED <<session_dir, attempt>>
             [] o = "fail" ->
                    /\ output' = "fail"
                    /\ session_dir' = TRUE
                    /\ NextAttempt(0)
    /\ UNCHANGED <<dry_run, max_attempts, agent_calls, applied, attempt_files,
                   patch_text, extracted, guardrail, files, files_before, guard_vars, rest_vars>>

ContextFiles == {"cargo_stdout.txt", "cargo_stderr.txt", "diagnostics.json",
                 "context_files.json", "context_specs.json"}

\* DiagnoseAndAsk that takes the questions for the patch text and goes on (a
\* fault the clarification rule must notice).
DiagnoseAndAskGoesOn ==
    /\ pc = "ask"
    /\ files_before' = files
    /\ agent_calls' = agent_calls + 1
    /\ \E r \in {"Final", "Questions", "Err"} :
        CASE r = "Err" ->
                /\ attempt_files' = Append(attempt_files, ContextFiles)
                /\ Return("agent_error")
                /\ UNCHANGED patch_text
          [] r = "Questions" ->
                /\ attempt_files' = Append(attempt_files,
                                           ContextFiles \cup {"agent_questions.txt"})
                /\ patch_text' = TextAdd
                /\ pc' = "extract"
                /\ result' = result
          [] r = "Final" ->
                /\ \E t \in AgentTexts : patch_text' = t
                /\ attempt_files' = Append(attempt_files,
                                           ContextFiles \cup {"proposed.patch"})
                /\ pc' = "extract"
                /\ result' = result
    /\ UNCHANGED <<dry_run, max_attempts, attempt, output, compile_log, applied,
                   session_dir, extracted, guardrail, files, guard_vars, rest_vars>>

\* S1, lines 71-134: the attempt directory, the compile output and the
\* context snapshots are written, then the agent is asked.
DiagnoseAndAsk ==
    /\ pc = "ask"
    /\ files_before' = files
    /\ agent_calls' = agent_calls + 1
    /\ \E r \in {"Final", "Questions", "Err"} :
        CASE r = "Err" ->
                /\ attempt_files' = Append(attempt_files, ContextFiles)
                /\ Return("agent_error")
                /\ UNCHANGED patch_text
          [] r = "Questions" ->
                /\ attempt_files' = Append(attempt_files,
                                           ContextFiles \cup {"agent_questions.txt"})
                /\ Return("clarification")
                /\ UNCHANGED patch_text
          [] r = "Final" ->
                /\ \E t \in AgentTexts : patch_text' = t
                /\ attempt_files' = Append(attempt_files,
                                           ContextFiles \cup {"proposed.patch"})
                /\ pc' = "extract"
                /\ result' = result
    /\ UNCHANGED <<dry_run, max_attempts, attempt, output, compile_log, applied,
                   session_dir, extracted, guardrail, files, guard_vars, rest_vars>>

\* S2, lines 136-137.
ExtractDiff ==
    /\ pc = "extract"
    /\ extracted' = extract_unified_diff(patch_text)
    /\ IF extracted'.some THEN pc' = "guard" /\ result' = result
       ELSE Return("no_diff")
    /\ UNCHANGED <<dry_run, max_attempts, attempt, output, compile_log, agent_calls,
                   applied, session_dir, attempt_files, patch_text, guardrail,
                   files, files_before, guard_vars, rest_vars>>

\* GuardWith that looks at the verdict before it writes the report (a fault
\* the written report must notice).
GuardWithLateReport(g) ==
    IF ~g.parsed
    THEN /\ Return("invalid_diff")
         /\ UNCHANGED <<guardrail, attempt_files>>
    ELSE /\ guardrail' = g.report
         /\ IF g.report.ok
            THEN /\ WriteAttempt({"guardrail_report.json"})
                 /\ pc' = "apply"
                 /\ result' = result
            ELSE /\ Return("guardrails")
                 /\ UNCHANGED attempt_files

\* S3, lines 139-153: the report is written before the verdict is looked at.
GuardWith(g) ==
    IF ~g.parsed
    THEN /\ Return("invalid_diff")
         /\ UNCHANGED <<guardrail, attempt_files>>
    ELSE /\ guardrail' = g.report
         /\ WriteAttempt({"guardrail_report.json"})
         /\ IF g.report.ok THEN pc' = "apply" /\ result' = result
            ELSE Return("guardrails")
Guard ==
    /\ pc = "guard"
    /\ \E g \in {check_guardrails({}, extracted.diff)} : GuardWith(g)
    /\ UNCHANGED <<dry_run, max_attempts, attempt, output, compile_log, agent_calls,
                   applied, session_dir, patch_text, extracted, files,
                   files_before, guard_vars, rest_vars>>

\* ApplyWith that goes to the next attempt when the patch does not apply (a
\* fault the escalation rule must notice).
ApplyWithRetry(r) ==
    /\ files' = r.files
    /\ IF r.ok
       THEN /\ applied' = applied + 1
            /\ WriteAttempt({"applied.patch"})
            /\ pc' = "recompile"
            /\ result' = result
       ELSE /\ IF attempt < max_attempts
               THEN pc' = "ask" /\ result' = result
               ELSE Return("exhausted")
            /\ UNCHANGED <<applied, attempt_files>>

\* S4, lines 155-157.
ApplyWith(r) ==
    /\ files' = r.files
    /\ IF r.ok
       THEN /\ applied' = applied + 1
            /\ WriteAttempt({"applied.patch"})
            /\ pc' = "recompile"
            /\ result' = result
       ELSE /\ Return("apply_failed")
            /\ UNCHANGED <<applied, attempt_files>>
Apply ==
    /\ pc = "apply"
    /\ \E r \in {apply_unified_diff(files, extracted.diff)} : ApplyWith(r)
    /\ UNCHANGED <<dry_run, max_attempts, attempt, output, compile_log, agent_calls,
                   session_dir, patch_text, extracted, guardrail, files_before,
                   guard_vars, rest_vars>>

AfterFiles == {"cargo_stdout_after.txt", "cargo_stderr_after.txt"}

\* S5, lines 159-172: compile again; on failure go to the next attempt.
Recompile ==
    /\ pc = "recompile"
    /\ \E o \in CompilerOutcomes :
        /\ compile_log' = Append(compile_log, o)
        /\ CASE o = "exec_err" ->
                    /\ Return("compiler_error")
                    /\ UNCHANGED <<output, attempt, attempt_files>>
             [] o = "ok" ->
                    /\ output' = "ok"
                    /\ WriteAttempt(AfterFiles)
                    /\ Return("ok")
                    /\ UNCHANGED attempt
             [] o = "fail" ->
                    /\ output' = "fail"
                    /\ WriteAttempt(AfterFiles)
                    /\ NextAttempt(attempt)
    /\ UNCHANGED <<dry_run, max_attempts, agent_calls, applied, session_dir,
                   patch_text, extracted, guardrail, files, files_before, guard_vars, rest_vars>>

LoopNext == Start \/ Compile \/ DiagnoseAndAsk \/ ExtractDiff \/ Guard \/ Apply
            \/ Recompile

Spec == LoopInit /\ [][LoopNext]_vars

\* The function runs to its end once called: the compiler and the agent
\* return, and nothing else is waited for.
LiveSpec == Spec /\ WF_vars(LoopNext)

(***************************************************************************)
(* check_guardrails applied to diffs of a bounded family, next to the loop *)
(***************************************************************************)
Flags == {"none", "new", "deleted"}
FlagLines(flag) ==
    CASE flag = "new" -> <<NewFileMode>>
      [] flag = "deleted" -> <<DeletedFileMode>>
      [] OTHER -> <<>>

\* The header of one file patch; None for old (new) leaves the "--- "
\* ("+++ ") line out.
FileHeader(flag, old, new) ==
    <<DiffGit>> \o FlagLines(flag)
    \o (IF old = None THEN <<>> ELSE <<OldLine(old)>>)
    \o (IF new = None THEN <<>> ELSE <<NewLine(new)>>)

Readme == <<"README.md">>
GuardPaths == {SrcM, CargoToml, Readme, DraftD, <<"specifications", "s.md">>,
               <<"", "etc", "passwd">>, <<"src", "..", "x.rs">>, <<"src", "x..y">>,
               EmptyPath, <<"src">>, <<"sub", "Cargo.toml">>, <<"srcs", "m.rs">>}
OldVariants(p) == {<<"a">> \o p, p, DevNull, None}
NewVariants(p) == {<<"b">> \o p, p, DevNull, None}

OneLineBody == <<HunkHeader(1), Add(<<"x">>)>>

\* One file patch: every flag, every way to write the two paths.
PathDiffs ==
    UNION {{FileHeader(f, o, n) \o OneLineBody :
              f \in Flags, o \in OldVariants(p), n \in NewVariants(p)} :
           p \in GuardPaths}
\* One file patch whose two paths differ.
RenameDiffs ==
    {FileHeader("none", <<"a">> \o p, <<"b">> \o q) \o OneLineBody :
       p \in GuardPaths, q \in GuardPaths}
\* Two file patches, one of them for an allowed path.
NewOrDevNull(q, gone) == IF gone THEN DevNull ELSE <<"b">> \o q
SecondPatch(f, q, gone) ==
    FileHeader(f, <<"a">> \o q, NewOrDevNull(q, gone)) \o OneLineBody
TwoPatchDiffs ==
    UNION {{FileHeader("none", <<"a">> \o p, <<"b">> \o p) \o OneLineBody
              \o SecondPatch(f, q, gone),
            SecondPatch(f, q, gone)
              \o FileHeader("none", <<"a">> \o p, <<"b">> \o p) \o OneLineBody} :
           p \in {SrcM, CargoToml}, q \in GuardPaths, f \in Flags, gone \in BOOLEAN}
\* Diffs parse_unified_diff refuses.
MalformedDiffs == {TextDelete \o <<BadHunkHeader>>, TextBadHunk, TextProse,
                   <<OldLine(<<"a">> \o SrcM), NewLine(DevNull), HunkHeader(1)>>}

\* Diffs around the limit on removed lines.
Removals(n) == Rep(Rem(<<"x">>), n)
HalfLimit == MaxDeletedLines \div 2
CountDiffs ==
    {GitHeader(SrcM) \o <<HunkHeader(1)>> \o Removals(n) :
       n \in {MaxDeletedLines - 1, MaxDeletedLines, MaxDeletedLines + 1}}
    \cup {GitHeader(SrcM) \o <<HunkHeader(1), Ctx(<<"a">>), Add(<<"y">>)>>
            \o Removals(n) \o <<Add(<<"z">>), EmptyLine>> :
          n \in {MaxDeletedLines, MaxDeletedLines + 1}}
    \cup {GitHeader(SrcM) \o <<HunkHeader(1)>> \o Removals(MaxDeletedLines)
            \o <<OldLine(<<"x">>)>>}
    \cup {GitHeader(SrcM) \o <<HunkHeader(1)>> \o Removals(HalfLimit)
            \o <<HunkHeader(500)>> \o Removals(n) :
          n \in {MaxDeletedLines - HalfLimit, MaxDeletedLines - HalfLimit + 1}}
    \cup {GitHeader(SrcM) \o <<HunkHeader(1)>> \o Removals(HalfLimit)
            \o GitHeader(q) \o <<HunkHeader(1)>> \o Removals(n) :
          q \in {CargoToml, Readme, DraftD},
          n \in {MaxDeletedLines - HalfLimit, MaxDeletedLines - HalfLimit + 1}}
    \cup {FileHeader("deleted", <<"a">> \o SrcM, DevNull) \o <<HunkHeader(1)>>
            \o Removals(n) :
          n \in {MaxDeletedLines, MaxDeletedLines + 1}}

\* Diffs that add or remove the signature of a public function in src/m.rs.
Visibilities == {<<"pub">>, <<"pub", "(", "crate", ")">>}
FnNames == {"foo", "set_x", "new", "try_new"}
ParamLists == {<<>>, <<"&self">>, <<"self">>, <<"&mut", "self">>, <<"mut", "self">>,
               <<"&self", ",", "v", ":", "T">>,
               <<"&mut", "self", ",", "v", ":", "T">>,
               <<"v", ":", "T">>}
ReturnTypes == {<<>>, <<"->", "T">>}
Signature(vis, name, params, ret) ==
    vis \o <<"fn", name, "(">> \o params \o <<")">> \o ret \o <<"{">>
Signatures ==
    {Signature(v, n, ps, r) :
       v \in Visibilities, n \in FnNames, ps \in ParamLists, r \in ReturnTypes}
\* A signature broken over several lines, an async fn, a private fn.
OtherFnLines == {<<"pub", "fn", "foo", "(">>,
                 <<"pub", "async", "fn", "foo", "(", "&self", ")", "{">>,
                 <<"fn", "foo", "(", "&self", ")", "{">>}
PairSignatures ==
    {Signature(<<"pub">>, n, ps, <<"->", "T">>) :
       n \in {"foo", "set_x"}, ps \in {<<"&self">>, <<"self">>, <<"&mut", "self">>}}
ApiDiffs ==
    {GitHeader(SrcM) \o <<HunkHeader(1), Add(sg)>> : sg \in Signatures \cup OtherFnLines}
    \cup {GitHeader(SrcM) \o <<HunkHeader(1), Rem(sg)>> :
            sg \in Signatures \cup OtherFnLines}
    \cup {GitHeader(SrcM) \o <<HunkHeader(1), Rem(r), Add(a)>> :
            r \in PairSignatures, a \in PairSignatures}

\* Diffs that replace the signature of foo in src/m.rs by another one: every
\* pair of parameter lists without a return type, and every pair of return
\* types over an unchanged parameter list.
ModifyParams == {<<>>, <<"x", ":", "T">>, <<"x", ":", "&", "T">>,
                 <<"x", ":", "&mut", "T">>, <<"x", ":", "&", "'a", "T">>,
                 <<"x", ":", "U">>, <<"x", ":", "T", ",", "y", ":", "U">>,
                 <<"&self">>, <<"self">>, <<"&self", ",", "x", ":", "T">>,
                 <<"&mut", "self", ",", "x", ":", "T">>,
                 <<"&mut", "self", ",", "x", ":", "&", "T">>}
ModifyReturns == {<<>>, <<"->", "T">>, <<"->", "&", "T">>, <<"->", "&mut", "T">>,
                  <<"->", "U">>}
ModifyDiff(vis, ps, r, qs, q) ==
    GitHeader(SrcM) \o <<HunkHeader(1), Rem(Signature(vis, "foo", ps, r)),
                          Add(Signature(vis, "foo", qs, q))>>
ModifyDiffs ==
    {ModifyDiff(v, ps, <<>>, qs, <<>>) :
       v \in Visibilities, ps \in ModifyParams, qs \in ModifyParams}
    \cup {ModifyDiff(v, ps, r, ps, q) :
            v \in Visibilities, ps \in {<<>>, <<"x", ":", "T">>, <<"&self">>},
            r \in ModifyReturns, q \in ModifyReturns}

\* Two or three file patches for different files of the allowed surface,
\* each with a hunk that applies to any file, a hunk whose context is in no
\* file, or the one followed by the other.
StaleBody == <<HunkHeader(1), Ctx(<<"zz">>), Add(<<"x">>)>>
HalfStaleBody == OneLineBody \o <<HunkHeader(2), Ctx(<<"zz">>), Add(<<"y">>)>>
SequenceBodies == {OneLineBody, StaleBody, HalfStaleBody}
SequencePatch(q, body) ==
    (IF q = SrcN THEN FileHeader("new", DevNull, <<"b">> \o q)
     ELSE FileHeader("none", <<"a">> \o q, <<"b">> \o q)) \o body
SequenceTargets == {SrcM, CargoToml, SrcN}
SequenceDiffs ==
    {SequencePatch(t[1], b[1]) \o SequencePatch(t[2], b[2]) :
       t \in {t \in [1..2 -> SequenceTargets] : t[1] # t[2]},
       b \in [1..2 -> SequenceBodies]}
    \cup {SequencePatch(t[1], b[1]) \o SequencePatch(t[2], b[2])
            \o SequencePatch(t[3], b[3]) :
          t \in {t \in [1..3 -> SequenceTargets] : Cardinality({t[1], t[2], t[3]}) = 3},
          b \in [1..3 -> SequenceBodies]}

GuardDiffs == PathDiffs \cup RenameDiffs \cup TwoPatchDiffs \cup MalformedDiffs
              \cup CountDiffs \cup ApiDiffs \cup ModifyDiffs \cup SequenceDiffs

\* The loop is not running.
LoopIdle ==
    /\ pc = "idle"
    /\ dry_run = FALSE
    /\ max_attempts = 0
    /\ attempt = 0
    /\ output = "none"
    /\ compile_log = <<>>
    /\ agent_calls = 0
    /\ applied = 0
    /\ session_dir = FALSE
    /\ attempt_files = <<>>
    /\ patch_text = <<>>
    /\ extracted = NoExtract
    /\ guardrail = NoReport
    /\ files = InitialFiles
    /\ files_before = InitialFiles
    /\ result = "none"

\* The canonical path of src/m.rs lies outside the root (a symlink) or not.
GuardInit ==
    /\ LoopIdle
    /\ g_diff \in GuardDiffs
    /\ g_links \in (IF g_diff \in CountDiffs THEN {{}, {SrcM}} ELSE {{}})
    /\ g_out = NoGuardOut
    /\ g_applied = NoApplied
    /\ RestIdle

GuardOut(r) == [called |-> TRUE, parsed |-> r.parsed, report |-> r.report]

\* One call of check_guardrails(project_root, diff).
CheckGuardrails ==
    /\ pc = "idle"
    /\ ~g_out.called
    /\ g_out' = GuardOut(check_guardrails(g_links, g_diff))
    /\ UNCHANGED <<loop_vars, g_diff, g_links, g_applied, rest_vars>>

\* The call of apply_unified_diff(project_root, diff) that follows a report
\* without issues, in the project the loop starts from.
Applied(r) == [called |-> TRUE, ok |-> r.ok, files |-> r.files]
ApplyAccepted ==
    /\ pc = "idle"
    /\ g_out.called /\ g_out.parsed /\ g_out.report.ok
    /\ ~g_applied.called
    /\ g_applied' = Applied(apply_unified_diff(InitialFiles, g_diff))
    /\ UNCHANGED <<loop_vars, g_diff, g_links, g_out, rest_vars>>

GuardSpecInit == GuardInit \/ LoopInit
GuardSpecNext == CheckGuardrails \/ ApplyAccepted \/ LoopNext
GuardSpec == GuardSpecInit /\ [][GuardSpecNext]_vars

(***************************************************************************)
(* apply_unified_diff as a function of a file and a diff                   *)
(*                                                                         *)
(* An edit of a file is a script: each item keeps or deletes the next line *)
(* of the file or inserts a new line.  The unified diff of a script with c *)
(* lines of context holds every item within c items of a change, a hunk    *)
(* per run of such items; its header carries the number of the hunk's      *)
(* first old line, or of the line before it when the hunk has no old line. *)
(***************************************************************************)
MaxScript == 4
MaxShift == 5
ContextSizes == {0, 1, 3}
Unrelated == <<"u">>

EditItem(op, t) == [op |-> op, t |-> t]
EditItems == {EditItem(o, t) : o \in {"keep", "del"}, t \in {<<"a">>, <<"b">>}}
             \cup {EditItem("ins", <<"x">>)}
ScriptsUpTo(n) ==
    {s \in UNION {[1..k -> EditItems] : k \in 1..n} :
       \E i \in 1..Len(s) : s[i].op # "keep"}

IsOld(e) == e.op \in {"keep", "del"}
IsNew(e) == e.op \in {"keep", "ins"}
ItemText(e) == e.t
OldOf(s) == MapSeq(SelectSeq(s, IsOld), ItemText)
NewOf(s) == MapSeq(SelectSeq(s, IsNew), ItemText)

InHunkAt(s, c, i) ==
    i \in 1..Len(s)
    /\ \E j \in 1..Len(s) : s[j].op # "keep" /\ i - j <= c /\ j - i <= c
HunkStartsAt(s, c, i) == InHunkAt(s, c, i) /\ ~InHunkAt(s, c, i - 1)
HunkEnd(s, c, i) ==
    CHOOSE e \in i..Len(s) :
        (\A j \in i..e : InHunkAt(s, c, j)) /\ ~InHunkAt(s, c, e + 1)
OldBefore(s, i) == Cardinality({j \in 1..(i - 1) : IsOld(s[j])})
OldStartOf(s, c, i) ==
    IF \E j \in i..HunkEnd(s, c, i) : IsOld(s[j])
    THEN OldBefore(s, i) + 1 ELSE OldBefore(s, i)
ItemLine(e) ==
    CASE e.op = "keep" -> Ctx(e.t)
      [] e.op = "del" -> Rem(e.t)
      [] e.op = "ins" -> Add(e.t)
\* The last line of the old or of the new file, in a file without a final
\* newline, is followed by the "\ No newline at end of file" marker.
IsLastOf(s, i, P(_)) == P(s[i]) /\ \A j \in (i + 1)..Len(s) : ~P(s[j])
DiffLinesAt(s, c, nl, i) ==
    IF ~InHunkAt(s, c, i) THEN <<>>
    ELSE (IF HunkStartsAt(s, c, i) THEN <<HunkHeader(OldStartOf(s, c, i))>> ELSE <<>>)
         \o <<ItemLine(s[i])>>
         \o (IF ~nl /\ (IsLastOf(s, i, IsOld) \/ IsLastOf(s, i, IsNew))
             THEN <<NoNewline>> ELSE <<>>)
RECURSIVE DiffBody(_, _, _, _)
DiffBody(s, c, nl, i) ==
    IF i > Len(s) THEN <<>>
    ELSE DiffLinesAt(s, c, nl, i) \o DiffBody(s, c, nl, i + 1)
DiffOf(s, c, nl) == GitHeader(SrcM) \o DiffBody(s, c, nl, 1)

\* In files without a final newline the last old line and the last new line
\* differ from every line with one, so neither is a context line unless it
\* is the last line of both files.
NoNewlineOk(s) ==
    \A i \in 1..(Len(s) - 1) :
        (IsLastOf(s, i, IsOld) \/ IsLastOf(s, i, IsNew)) => s[i].op # "keep"

\* A file's content: its lines, and a final newline unless it is empty.
FileOf(lines, nl) == Content(lines, nl /\ lines # <<>>)

\* The script s with k unrelated lines that stay in the file put in after
\* its item q, a place outside the hunks of the diff with context c.
OutsideHunks(s, c, q) == ~(InHunkAt(s, c, q) /\ InHunkAt(s, c, q + 1))
Shifted(s, q, k) ==
    SubSeq(s, 1, q) \o Rep(EditItem("keep", Unrelated), k) \o SubSeq(s, q + 1, Len(s))

ApplyCase(file, want, diff, shift) ==
    /\ a_file = file
    /\ a_want = want
    /\ a_diff = diff
    /\ a_shift = shift
    /\ a_out = NoApplyOut

\* The diff of an edit, applied to the file it was written against.
ExactCase ==
    \E s \in ScriptsUpTo(MaxScript), c \in ContextSizes, nl \in BOOLEAN :
        (nl \/ NoNewlineOk(s)) /\
        ApplyCase(FileOf(OldOf(s), nl), FileOf(NewOf(s), nl), DiffOf(s, c, nl), 0)

\* The diff of an edit, applied after 1 or MaxShift unrelated lines were put
\* into the file outside the diff's hunks.
ShiftedCase ==
    \E s \in ScriptsUpTo(MaxScript), c \in ContextSizes, k \in {1, MaxShift} :
        \E q \in {q \in 0..Len(s) : OutsideHunks(s, c, q)} :
            ApplyCase(FileOf(OldOf(Shifted(s, q, k)), TRUE),
                      FileOf(NewOf(Shifted(s, q, k)), TRUE),
                      DiffOf(s, c, TRUE), k)

ApplyInit ==
    /\ LoopIdle
    /\ GuardIdle
    /\ TrackerIdle
    /\ DriverIdle
    /\ LaterIdle
    /\ HunkIdle
    /\ ExactCase \/ ShiftedCase

\* One call of apply_unified_diff(project_root, diff) in a project whose
\* src/m.rs holds a_file (no file when a_file is empty).
ApplyTree(c) ==
    IF c.lines = <<>> THEN [p \in {CargoToml} |-> InitialFiles[CargoToml]]
    ELSE [p \in {CargoToml, SrcM} |-> IF p = SrcM THEN c ELSE InitialFiles[CargoToml]]
ApplyOut(r) ==
    [called |-> TRUE, ok |-> r.ok,
     content |-> IF SrcM \in DOMAIN r.files THEN r.files[SrcM] ELSE Content(<<>>, FALSE)]
ApplyDiff ==
    /\ pc = "idle"
    /\ ~a_out.called
    /\ \E r \in {apply_unified_diff(ApplyTree(a_file), a_diff)} : a_out' = ApplyOut(r)
    /\ UNCHANGED <<loop_vars, guard_vars, track_vars, drive_vars, later_vars,
                   a_file, a_want, a_diff, a_shift, hunk_vars>>

ApplySpec == ApplyInit /\ [][ApplyDiff]_vars

(***************************************************************************)
(* apply_hunks on one hunk                                                 *)
(*                                                                         *)
(* The file and the hunk are any lines over two texts; the hunk's header   *)
(* names a line of the file, the line after its end, or a line so far      *)
(* beyond it that the first positions of the file are up to Fuzz lines     *)
(* away, or further.                                                       *)
(***************************************************************************)
MaxFileLines == 3
MaxHunkLines == 3
HunkTexts == {<<"a">>, <<"b">>}
HunkLines ==
    {HunkLine(k, t) : k \in {"Context", "Remove"}, t \in HunkTexts}
    \cup {HunkLine("Add", <<"x">>)}
SeqsUpTo(S, n) == UNION {[1..k -> S] : k \in 0..n}
OldStarts == 0..(MaxFileLines + 1) \cup {Fuzz + k : k \in 1..(MaxFileLines + 2)}

HunkInit ==
    /\ LoopIdle
    /\ GuardIdle
    /\ TrackerIdle
    /\ DriverIdle
    /\ LaterIdle
    /\ a_file = [lines |-> <<>>, nl |-> FALSE]
    /\ a_want = [lines |-> <<>>, nl |-> FALSE]
    /\ a_diff = <<>>
    /\ a_shift = 0
    /\ a_out = NoApplyOut
    /\ h_lines \in SeqsUpTo(HunkTexts, MaxFileLines)
    /\ \E o \in OldStarts, ls \in SeqsUpTo(HunkLines, MaxHunkLines) :
           h_hunk = [old_start |-> o, lines |-> ls]
    /\ h_out = NoHunkOut

\* The body of the loop of apply_hunks for the hunk: the position
\* find_hunk_start gives, the re-walk from it, and what apply_hunks returns.
HunkOut(start, walk, r) ==
    [called |-> TRUE, start |-> start, walk |-> walk, ok |-> r.ok, lines |-> r.lines]
HunkWalk(current, h, start) ==
    IF start.some THEN WalkHunk(current, h.lines, start.at, <<>>) ELSE NoHunkOut.walk
ApplyHunk ==
    /\ ~h_out.called
    /\ \E start \in {find_hunk_start(h_lines, hunk_preimage_pattern(h_hunk),
                                      SatSub(h_hunk.old_start, 1))} :
           h_out' = HunkOut(start, HunkWalk(h_lines, h_hunk, start),
                            apply_hunks(h_lines, <<h_hunk>>))
    /\ UNCHANGED <<loop_vars, guard_vars, track_vars, drive_vars, later_vars,
                   a_file, a_want, a_diff, a_shift, a_out, h_lines, h_hunk>>

HunkSpec == HunkInit /\ [][ApplyHunk]_vars

(***************************************************************************)
(* The tracker's methods called in any order on a project whose files are  *)
(* written, replaced and removed between the calls.                        *)
(***************************************************************************)
\* The keys the methods are called with, and the files the project can hold.
CallKeys == {<<"Specification", "a">>, <<"Specification", "b">>,
             <<"Implementation", "a">>}
ProjectFiles ==
    [p \in {<<"drafts", "a">>, <<"specifications", "a">>} |-> Contents \cup {Missing}]
    @@ [p \in {<<"drafts", "b">>} |-> {"v1"}]
    @@ [p \in {<<"specifications", "b">>, <<"src", "a">>} |-> {"v1", Missing}]
InitialProject ==
    [p \in DOMAIN ProjectFiles |-> IF p[1] = "drafts" THEN "v1" ELSE Missing]

TrackerInit ==
    /\ LoopIdle
    /\ GuardIdle
    /\ ApplyIdle
    /\ DriverIdle
    /\ LaterIdle
    /\ tracker = EmptyTracker
    /\ tracker_file = EmptyTracker
    /\ proj = InitialProject
    /\ t_out = NoCall
    /\ t_rec = NeverRecorded

TrackerFrame ==
    UNCHANGED <<loop_vars, guard_vars, apply_vars, drive_vars, later_vars, tracker_file>>

\* A file of the project is written, replaced or removed.
EditFile ==
    \E p \in DOMAIN ProjectFiles : \E c \in ProjectFiles[p] :
        /\ pc = "idle"
        /\ proj[p] # c
        /\ proj' = [proj EXCEPT ![p] = c]
        /\ t_out' = NoCall
        /\ UNCHANGED <<tracker, t_rec>>
        /\ TrackerFrame

NeedsUpdateCall ==
    \E k \in CallKeys :
        /\ pc = "idle"
        /\ t_out' = Call("needs_update", k[1], k[2],
                         needs_update(tracker, proj, k[1], k[2],
                                      InputPath(k[1], k[2]), OutputPath(k[1], k[2])))
        /\ UNCHANGED <<tracker, proj, t_rec>>
        /\ TrackerFrame

UpstreamChangedCall ==
    \E st \in Stages, n \in TrackedNames \cup {AnyName} :
        /\ pc = "idle"
        /\ t_out' = Call("upstream_changed", st, n, upstream_changed(tracker, proj, st, n))
        /\ UNCHANGED <<tracker, proj, t_rec>>
        /\ TrackerFrame

RecordWith(k, r) ==
    /\ tracker' = r.tracks
    /\ t_out' = Call("record", k[1], k[2], IF r.ok THEN "ok" ELSE "err")
    /\ t_rec' = IF r.ok /\ Exists(proj, OutputPath(k[1], k[2]))
                THEN [t_rec EXCEPT ![k] = proj[InputPath(k[1], k[2])]]
                ELSE IF r.ok THEN [t_rec EXCEPT ![k] = "none"]
                ELSE t_rec
    /\ UNCHANGED proj
    /\ TrackerFrame
RecordCall ==
    \E k \in CallKeys :
        /\ pc = "idle"
        /\ RecordWith(k, record(tracker, proj, k[1], k[2],
                                InputPath(k[1], k[2]), OutputPath(k[1], k[2])))

ClearStageWith(st, r) ==
    /\ tracker' = r.tracks
    /\ t_out' = Call("clear_stage", st, "", r.removed)
    /\ t_rec' = [k \in Keys |-> IF k[1] = st THEN "none" ELSE t_rec[k]]
    /\ UNCHANGED proj
    /\ TrackerFrame
ClearStageCall ==
    \E st \in Stages :
        /\ pc = "idle"
        /\ ClearStageWith(st, clear_stage(tracker, st))

TrackerNext ==
    \/ EditFile
    \/ NeedsUpdateCall
    \/ UpstreamChangedCall
    \/ RecordCall
    \/ ClearStageCall
TrackerSpec == TrackerInit /\ [][TrackerNext]_vars

(***************************************************************************)
(* The stage drivers create_specification and create_implementation        *)
(* (cli/mod.rs), run again and again on a project of three nodes whose     *)
(* inputs are edited and whose outputs are removed between the runs.       *)
(*                                                                         *)
(* What the agent answers, whether a node's dependency context can be      *)
(* built, whether the generated layout is valid and whether the project    *)
(* compiles are inputs.  What the agent generates is one content,          *)
(* Generated, whatever the input; a specification with actionable blocking *)
(* ambiguities is the content Blocked.                                     *)
(***************************************************************************)
Blocked == "blocked"
Generated == "generated"
Nodes == {"a", "b", "c"}
Plans == {"chain", "fork"}
DriverStages == {"Specification", "Implementation"}
\* ExecutionNode::direct_dependency_names: in the chain b depends on a and c
\* on b; in the fork c depends on a and on b.
DirectDeps(plan, n) ==
    IF plan = "chain"
    THEN (IF n = "b" THEN {"a"} ELSE IF n = "c" THEN {"b"} ELSE {})
    ELSE (IF n = "c" THEN {"a", "b"} ELSE {})
TransitiveDeps(plan, n) ==
    LET d1 == DirectDeps(plan, n)
        d2 == d1 \cup UNION {DirectDeps(plan, m) : m \in d1}
    IN d2 \cup UNION {DirectDeps(plan, m) : m \in d2}
\* build_execution_plan: dependencies come in earlier levels.
Levels(plan) ==
    IF plan = "chain" THEN << <<"a">>, <<"b">>, <<"c">> >>
    ELSE << <<"a", "b">>, <<"c">> >>

\* has_unfinished_specification: the file has actionable blocking ambiguities.
has_unfinished_specification(f, path) == f[path] = Blocked

Outcomes == {"ok", "agent_err", "marked"}
\* process_specification / process_implementation.  The output is written
\* before a marked result is turned into an error; a dry run writes nothing
\* and returns Ok.
process(stage, f, n, dry, outcome) ==
    LET inp == InputPath(stage, n)
        out == OutputPath(stage, n)
    IN IF ~Exists(f, inp) THEN [ok |-> FALSE, unspec |-> FALSE, files |-> f]
       ELSE IF stage = "Implementation" /\ has_unfinished_specification(f, inp)
       THEN [ok |-> FALSE, unspec |-> TRUE, files |-> f]
       ELSE IF dry THEN [ok |-> TRUE, unspec |-> FALSE, files |-> f]
       ELSE IF outcome = "agent_err" THEN [ok |-> FALSE, unspec |-> FALSE, files |-> f]
       ELSE IF outcome = "marked"
       THEN [ok |-> FALSE, unspec |-> FALSE, files |-> [f EXCEPT ![out] = Generated]]
       ELSE [ok |-> TRUE, unspec |-> FALSE, files |-> [f EXCEPT ![out] = Generated]]

\* clear_tracker_stage with no names given: nothing in a dry run.
clear_tracker_stage(tr, stage, dry) ==
    IF dry THEN tr ELSE clear_stage(tr, stage).tracks

\* The driver's decision for a node: forced by a direct dependency updated
\* in this run, or else what needs_update says.
dependency_invalidated(n) == DirectDeps(d_plan, n) \cap d_updated # {}
NodeNeedsUpdate(n) ==
    IF dependency_invalidated(n) THEN "true"
    ELSE needs_update(tracker, proj, d_stage, n,
                      InputPath(d_stage, n), OutputPath(d_stage, n))

Task(n, st) == [name |-> n, state |-> st]

DriverPaths == {<<d, n>> : d \in {"drafts", "specifications", "src"}, n \in Nodes}
\* At the start the inputs of the stage are there and nothing is generated.
StageProject(stage) ==
    [p \in DriverPaths |->
        IF p[1] = "drafts" \/ (p[1] = "specifications" /\ stage = "Implementation")
        THEN "v1" ELSE Missing]
\* The contents an input is edited to: a draft or specification gets a new
\* version, a specification gets blocking ambiguities.
InputVariants(stage, n) ==
    IF n = "a" THEN {"v1", "v2"}
    ELSE IF n = "b" /\ stage = "Implementation" THEN {"v1", Blocked}
    ELSE {"v1"}

StageInit ==
    /\ LoopIdle
    /\ GuardIdle
    /\ ApplyIdle
    /\ LaterIdle
    /\ tracker = EmptyTracker
    /\ tracker_file = EmptyTracker
    /\ t_out = NoCall
    /\ t_rec = NeverRecorded
    /\ d_stage \in DriverStages
    /\ d_plan \in Plans
    /\ proj = StageProject(d_stage)
    /\ d_parallel = FALSE
    /\ d_dry = FALSE
    /\ d_pc = "idle"
    /\ d_level = 0
    /\ d_todo = <<>>
    /\ d_tasks = <<>>
    /\ d_updated = {}
    /\ d_unspec = FALSE
    /\ d_result = "none"
    /\ d_failed = {}
    /\ d_skipped = {}

StageFrame ==
    UNCHANGED <<loop_vars, guard_vars, apply_vars, later_vars, t_out, t_rec, d_stage, d_plan>>
Resting == pc = "idle" /\ d_pc \in {"idle", "done"}

\* Between two runs nothing of the last run is left but the files.
BetweenRuns ==
    /\ tracker' = tracker_file
    /\ d_pc' = "idle"
    /\ d_level' = 0
    /\ d_todo' = <<>>
    /\ d_tasks' = <<>>
    /\ d_updated' = {}
    /\ d_unspec' = FALSE
    /\ d_result' = "none"
    /\ d_failed' = {}
    /\ d_skipped' = {}
    /\ d_parallel' = FALSE
    /\ d_dry' = FALSE
    /\ UNCHANGED tracker_file
    /\ StageFrame

\* The input of a node is edited.
EditInput ==
    \E n \in Nodes : \E c \in InputVariants(d_stage, n) :
        /\ Resting
        /\ proj[InputPath(d_stage, n)] # c
        /\ proj' = [proj EXCEPT ![InputPath(d_stage, n)] = c]
        /\ BetweenRuns

\* The output of a node is removed.
RemoveOutput ==
    /\ Resting
    /\ Exists(proj, OutputPath(d_stage, "c"))
    /\ proj' = [proj EXCEPT ![OutputPath(d_stage, "c")] = Missing]
    /\ BetweenRuns

\* The driver's entry: the tracker is loaded, the stage cleared on request,
\* the plan built, the first level taken up.
StartRun ==
    \E par \in BOOLEAN, dry \in BOOLEAN, clear_cache \in BOOLEAN :
        /\ Resting
        /\ tracker' = IF clear_cache
                      THEN clear_tracker_stage(tracker_file, d_stage, dry)
                      ELSE tracker_file
        /\ d_parallel' = par
        /\ d_dry' = dry
        /\ d_pc' = "decide"
        /\ d_level' = 1
        /\ d_todo' = Levels(d_plan)[1]
        /\ d_tasks' = <<>>
        /\ d_updated' = {}
        /\ d_unspec' = FALSE
        /\ d_result' = "none"
        /\ d_failed' = {}
        /\ d_skipped' = {}
        /\ UNCHANGED <<tracker_file, proj>>
        /\ StageFrame

\* GoOn that takes up the next level without awaiting the level's tasks (a
\* fault the level barrier must notice).
GoOnEarly(todo, tasks) ==
    /\ d_tasks' = tasks
    /\ UNCHANGED d_result
    /\ IF todo # <<>>
       THEN /\ d_todo' = todo
            /\ UNCHANGED <<d_pc, d_level>>
       ELSE IF d_level < Len(Levels(d_plan))
       THEN /\ d_todo' = Levels(d_plan)[d_level + 1]
            /\ d_pc' = "decide"
            /\ d_level' = d_level + 1
       ELSE IF tasks # <<>>
       THEN /\ d_todo' = <<>>
            /\ d_pc' = "tasks"
            /\ UNCHANGED d_level
       ELSE /\ d_todo' = <<>>
            /\ d_pc' = "finish"
            /\ UNCHANGED d_level

\* Where the driver goes on: the next node of the level, the level's tasks,
\* the next level, or the end of the levels.
GoOn(todo, tasks) ==
    /\ d_tasks' = tasks
    /\ UNCHANGED d_result
    /\ IF todo # <<>>
       THEN /\ d_todo' = todo
            /\ UNCHANGED <<d_pc, d_level>>
       ELSE IF tasks # <<>>
       THEN /\ d_todo' = <<>>
            /\ d_pc' = "tasks"
            /\ UNCHANGED d_level
       ELSE IF d_level < Len(Levels(d_plan))
       THEN /\ d_todo' = Levels(d_plan)[d_level + 1]
            /\ d_pc' = "decide"
            /\ d_level' = d_level + 1
       ELSE /\ d_todo' = <<>>
            /\ d_pc' = "finish"
            /\ UNCHANGED d_level

\* An error propagated with `?`: the driver returns at once.
ReturnErr ==
    /\ d_pc' = "done"
    /\ d_result' = "err"
    /\ d_level' = 0
    /\ d_todo' = <<>>
    /\ d_tasks' = <<>>

\* Commit that records whatever the task returned (a fault the rule that
\* only awaited successes are committed must notice).
CommitWhatever(n, r, todo, tasks) ==
    LET rec == record(tracker, r.files, d_stage, n,
                      InputPath(d_stage, n), OutputPath(d_stage, n))
    IN /\ tracker' = rec.tracks
       /\ d_updated' = d_updated \cup {n}
       /\ GoOn(todo, tasks)
       /\ UNCHANGED <<d_failed, d_unspec>>

\* The result of a node's transformation is committed: recorded and entered
\* in updated_in_run on Ok, only reported on Err.
Commit(n, r, todo, tasks) ==
    IF r.ok
    THEN LET rec == record(tracker, r.files, d_stage, n,
                           InputPath(d_stage, n), OutputPath(d_stage, n))
         IN IF rec.ok
            THEN /\ tracker' = rec.tracks
                 /\ d_updated' = d_updated \cup {n}
                 /\ GoOn(todo, tasks)
                 /\ UNCHANGED <<d_failed, d_unspec>>
            ELSE /\ ReturnErr
                 /\ UNCHANGED <<tracker, d_updated, d_failed, d_unspec>>
    ELSE /\ d_failed' = d_failed \cup {n}
         /\ d_unspec' = (d_unspec \/ (r.unspec /\ d_stage = "Implementation"))
         /\ GoOn(todo, tasks)
         /\ UNCHANGED <<tracker, d_updated>>

\* create_specification, sequential branch: one node is decided, processed
\* and committed.  An error of build_dependency_context is propagated.
SpecificationNode ==
    /\ pc = "idle"
    /\ d_stage = "Specification"
    /\ ~d_parallel
    /\ d_pc = "decide"
    /\ d_todo # <<>>
    /\ LET n == Head(d_todo) IN
       \/ /\ NodeNeedsUpdate(n) = "err"
          /\ ReturnErr
          /\ UNCHANGED <<tracker, proj, d_updated, d_failed, d_unspec, d_skipped>>
       \/ /\ NodeNeedsUpdate(n) = "false"
          /\ d_skipped' = d_skipped \cup {n}
          /\ GoOn(Tail(d_todo), <<>>)
          /\ UNCHANGED <<tracker, proj, d_updated, d_failed, d_unspec>>
       \/ /\ NodeNeedsUpdate(n) = "true"
          /\ \/ /\ ReturnErr
                /\ d_failed' = d_failed \cup {n}
                /\ UNCHANGED <<tracker, proj, d_updated, d_unspec>>
             \/ \E outcome \in Outcomes :
                    \E r \in {process(d_stage, proj, n, d_dry, outcome)} :
                        /\ proj' = r.files
                        /\ Commit(n, r, Tail(d_todo), <<>>)
          /\ UNCHANGED d_skipped
    /\ UNCHANGED <<tracker_file, d_parallel, d_dry>>
    /\ StageFrame

\* create_specification, parallel branch: one node is decided and, when it
\* needs an update and its dependency context can be built, spawned.
SpecificationSpawn ==
    /\ pc = "idle"
    /\ d_stage = "Specification"
    /\ d_parallel
    /\ d_pc = "decide"
    /\ d_todo # <<>>
    /\ LET n == Head(d_todo) IN
       \/ /\ NodeNeedsUpdate(n) = "err"
          /\ ReturnErr
          /\ UNCHANGED <<d_failed, d_skipped>>
       \/ /\ NodeNeedsUpdate(n) = "false"
          /\ d_skipped' = d_skipped \cup {n}
          /\ GoOn(Tail(d_todo), d_tasks)
          /\ UNCHANGED d_failed
       \/ /\ NodeNeedsUpdate(n) = "true"
          /\ \/ /\ d_failed' = d_failed \cup {n}
                /\ GoOn(Tail(d_todo), d_tasks)
             \/ /\ GoOn(Tail(d_todo), Append(d_tasks, Task(n, "spawned")))
                /\ UNCHANGED d_failed
          /\ UNCHANGED d_skipped
    /\ UNCHANGED <<tracker, tracker_file, proj, d_updated, d_unspec, d_parallel, d_dry>>
    /\ StageFrame

\* create_implementation, both branches: one node of the level is decided
\* and, when it needs an update, put among the runnable ones.  An error of
\* build_dependency_context is propagated.
ImplementationDecide ==
    /\ pc = "idle"
    /\ d_stage = "Implementation"
    /\ d_pc = "decide"
    /\ d_todo # <<>>
    /\ LET n == Head(d_todo) IN
       IF has_unfinished_specification(proj, InputPath(d_stage, n))
       THEN /\ d_unspec' = TRUE
            /\ GoOn(Tail(d_todo), d_tasks)
            /\ UNCHANGED <<d_failed, d_skipped>>
       ELSE \/ /\ NodeNeedsUpdate(n) = "err"
               /\ ReturnErr
               /\ UNCHANGED <<d_failed, d_skipped, d_unspec>>
            \/ /\ NodeNeedsUpdate(n) = "false"
               /\ d_skipped' = d_skipped \cup {n}
               /\ GoOn(Tail(d_todo), d_tasks)
               /\ UNCHANGED <<d_failed, d_unspec>>
            \/ /\ NodeNeedsUpdate(n) = "true"
               /\ \/ /\ ReturnErr
                     /\ d_failed' = d_failed \cup {n}
                  \/ /\ GoOn(Tail(d_todo),
                             Append(d_tasks,
                                    Task(n, IF d_parallel THEN "spawned" ELSE "runnable")))
                     /\ UNCHANGED d_failed
               /\ UNCHANGED <<d_skipped, d_unspec>>
    /\ UNCHANGED <<tracker, tracker_file, proj, d_updated, d_parallel, d_dry>>
    /\ StageFrame

\* create_implementation, sequential branch: the next runnable node is
\* processed and committed.
ImplementationNode ==
    /\ pc = "idle"
    /\ d_pc = "tasks"
    /\ d_tasks # <<>>
    /\ Head(d_tasks).state = "runnable"
    /\ \E outcome \in Outcomes :
          \E r \in {process(d_stage, proj, Head(d_tasks).name, d_dry, outcome)} :
              /\ proj' = r.files
              /\ Commit(Head(d_tasks).name, r, <<>>, Tail(d_tasks))
    /\ UNCHANGED <<tracker_file, d_parallel, d_dry, d_skipped>>
    /\ StageFrame

\* A spawned task runs: the transformation of its node, away from the
\* tracker and from updated_in_run.  create_specification spawns a task
\* inside its decision loop, create_implementation after it.
TaskRun ==
    \E i \in 1..Len(d_tasks), outcome \in Outcomes :
        /\ pc = "idle"
        /\ d_pc \in {"decide", "tasks"}
        /\ d_stage = "Implementation" => d_pc = "tasks"
        /\ d_tasks[i].state = "spawned"
        /\ \E r \in {process(d_stage, proj, d_tasks[i].name, d_dry, outcome)} :
              /\ proj' = r.files
              /\ d_tasks' = [d_tasks EXCEPT ![i].state =
                                IF r.ok THEN "ok" ELSE IF r.unspec THEN "unspec" ELSE "err"]
        /\ UNCHANGED <<tracker, tracker_file, d_parallel, d_dry, d_pc, d_level, d_todo,
                       d_updated, d_unspec, d_result, d_failed, d_skipped>>
        /\ StageFrame

\* Parallel branches: the driver awaits the level's first task and commits
\* its result.
TaskCommit ==
    /\ pc = "idle"
    /\ d_pc = "tasks"
    /\ d_tasks # <<>>
    /\ Head(d_tasks).state \in {"ok", "err", "unspec"}
    /\ Commit(Head(d_tasks).name,
              [ok |-> Head(d_tasks).state = "ok",
               unspec |-> Head(d_tasks).state = "unspec",
               files |-> proj],
              <<>>, Tail(d_tasks))
    /\ UNCHANGED <<tracker_file, proj, d_parallel, d_dry, d_skipped>>
    /\ StageFrame

\* BuildTracker::save.
save(tr) == tr

\* create_specification after the last level: the tracker is saved.
FinishSpecification ==
    /\ pc = "idle"
    /\ d_stage = "Specification"
    /\ d_pc = "finish"
    /\ tracker_file' = save(tracker)
    /\ d_pc' = "done"
    /\ d_result' = "ok"
    /\ d_level' = 0
    /\ UNCHANGED <<tracker, proj, d_parallel, d_dry, d_todo, d_tasks,
                   d_updated, d_unspec, d_failed, d_skipped>>
    /\ StageFrame

\* create_implementation after the last level: the layout is validated
\* (not in a dry run), the project compiled with automatic fixes, and only
\* then the tracker saved; either of the two may fail and end the run.
FinishImplementation ==
    \E layout_ok \in BOOLEAN, compiles \in BOOLEAN :
        /\ pc = "idle"
        /\ d_stage = "Implementation"
        /\ d_pc = "finish"
        /\ d_pc' = "done"
        /\ IF (~d_dry /\ ~layout_ok) \/ ~compiles
           THEN /\ d_result' = "err"
                /\ UNCHANGED tracker_file
           ELSE /\ tracker_file' = save(tracker)
                /\ d_result' = IF d_unspec THEN "err" ELSE "ok"
        /\ d_level' = 0
        /\ UNCHANGED <<tracker, proj, d_parallel, d_dry, d_todo, d_tasks,
                       d_updated, d_unspec, d_failed, d_skipped>>
        /\ StageFrame

StageNext ==
    \/ EditInput
    \/ RemoveOutput
    \/ StartRun
    \/ SpecificationNode
    \/ SpecificationSpawn
    \/ ImplementationDecide
    \/ ImplementationNode
    \/ TaskRun
    \/ TaskCommit
    \/ FinishSpecification
    \/ FinishImplementation
StageSpec == StageInit /\ [][StageNext]_vars

(***************************************************************************)
(* The dependency graph and the execution planner (dependency_graph.rs)    *)
(*                                                                         *)
(* A token is a sequence of characters, a file name (stem) a sequence of   *)
(* tokens parted by characters that are no letters or digits, a content a  *)
(* sequence of items: plain words, or a line `depends on: <name>`.  A path *)
(* is a string; paths are compared by their place in PathsInOrder, names   *)
(* of canonical form by the place in CanonicalsInOrder.                    *)
(***************************************************************************)
PathsInOrder == <<"drafts/E.md", "drafts/a.md", "drafts/e.md", "drafts/mt.md",
                  "drafts/x_y.md", "fallback/z.md">>
PlanPaths == Range(PathsInOrder)
PrimaryPaths == {"drafts/E.md", "drafts/a.md", "drafts/e.md", "drafts/mt.md", "drafts/x_y.md"}
FallbackPaths == {"fallback/z.md"}
PathRank(p) == CHOOSE i \in 1..Len(PathsInOrder) : PathsInOrder[i] = p
\* Path::file_stem: the name as tokens.
file_stem(p) ==
    CASE p = "drafts/E.md" -> << <<"E">> >>
      [] p = "drafts/a.md" -> << <<"a">> >>
      [] p = "drafts/e.md" -> << <<"e">> >>
      [] p = "drafts/mt.md" -> << <<"m", "t">> >>
      [] p = "drafts/x_y.md" -> << <<"x">>, <<"y">> >>
      [] p = "fallback/z.md" -> << <<"z">> >>
CanonicalsInOrder == << <<"a">>, <<"e">>, <<"m", "t">>, <<"x", "y">>, <<"z">> >>
CanonicalRank(c) == CHOOSE i \in 1..Len(CanonicalsInOrder) : CanonicalsInOrder[i] = c

RECURSIVE Flatten(_)
Flatten(ss) == IF ss = <<>> THEN <<>> ELSE Head(ss) \o Flatten(Tail(ss))
\* The elements of a set as a sequence in the order of their keys (a
\* BTreeSet's iteration, sort_unstable with dedup).
RECURSIVE SortedBy(_, _)
SortedBy(S, key) ==
    IF S = {} THEN <<>>
    ELSE LET x == CHOOSE y \in S : \A z \in S : key[y] <= key[z]
         IN <<x>> \o SortedBy(S \ {x}, key)
Ascending(S) == SortedBy(S, [k \in S |-> k])
\* slice::sort_by on a key: a stable sort.
RECURSIVE StableSortBy(_, _)
StableSortBy(q, key) ==
    IF q = <<>> THEN <<>>
    ELSE LET rest == The({StableSortBy(Tail(q), key)})
         IN SelectSeq(rest, LAMBDA y : key[y] < key[Head(q)])
            \o <<Head(q)>>
            \o SelectSeq(rest, LAMBDA y : key[y] >= key[Head(q)])
Reverse(q) == [i \in 1..Len(q) |-> q[Len(q) + 1 - i]]
PathKey == [p \in PlanPaths |-> PathRank(p)]
\* The order in which a directory listing or the iteration of a HashSet
\* hands out its elements is not fixed: here one order or its reverse.
IterationOrders == {"up", "down"}
Iterate(S, key, order) ==
    IF order = "up" THEN SortedBy(S, key) ELSE Reverse(SortedBy(S, key))

\* to_lowercase, on the letters that occur.
to_lowercase(token) == [i \in 1..Len(token) |-> IF token[i] = "E" THEN "e" ELSE token[i]]
\* canonicalize: the letters and digits of the name, in lower case.
canonicalize(name) == to_lowercase(Flatten(name))
\* token_count: the runs of letters and digits.
token_count(name) == Len(name)

Words(ws) == [explicit |-> FALSE, words |-> ws]
DependsOn(name) == [explicit |-> TRUE, words |-> name]
\* The tokens the token regex finds in a content.
RECURSIVE TokensOf(_)
TokensOf(content) ==
    IF content = <<>> THEN <<>>
    ELSE (IF Head(content).explicit THEN << <<"depends">>, <<"on">> >> ELSE <<>>)
         \o [i \in 1..Len(Head(content).words) |-> to_lowercase(Head(content).words[i])]
         \o TokensOf(Tail(content))
\* extract_explicit_dependency_names.
extract_explicit_dependency_names(content) ==
    {content[i].words : i \in {j \in 1..Len(content) : content[j].explicit}}

\* build_index: an IndexedArtifact for every file of the listing whose
\* name has a canonical form.
IndexedArtifact(p) ==
    [name |-> file_stem(p), canonical |-> canonicalize(file_stem(p)), path |-> p,
     token_len |-> IF token_count(file_stem(p)) > 1 THEN token_count(file_stem(p)) ELSE 1]
build_index(listing) ==
    LET kept == SelectSeq(listing, LAMBDA p : canonicalize(file_stem(p)) # <<>>)
    IN [i \in 1..Len(kept) |-> IndexedArtifact(kept[i])]

PathsOf(index, canonical) ==
    LET hits == SelectSeq(index, LAMBDA e : e.canonical = canonical)
    IN [i \in 1..Len(hits) |-> hits[i].path]
\* index_by_canonical without the sort by path (a fault the determinism of
\* the plan must notice).
IndexByCanonicalUnsorted(index, canonical) == PathsOf(index, canonical)
\* index_by_canonical(index).get(canonical): the paths of the entries with
\* this canonical name, sorted.
index_by_canonical(index, canonical) ==
    StableSortBy(PathsOf(index, canonical), PathKey)

\* extract_dependency_canonicals: the known canonical names a content names
\* in a `depends on` line or spells in a run of up to max_tokens tokens.
extract_dependency_canonicals(content, primary_index, fallback_index) ==
    LET index == primary_index \o fallback_index
        known == {index[i].canonical : i \in 1..Len(index)}
        lens == {index[i].token_len : i \in 1..Len(index)} \cup {1}
        max_tokens == CHOOSE m \in lens : \A l \in lens : l <= m
        tokens == TokensOf(content)
        spelled == {Flatten(SubSeq(tokens, r[1], r[1] + r[2] - 1)) :
                       r \in {q \in (1..Len(tokens)) \X (1..max_tokens) :
                                 q[1] + q[2] - 1 <= Len(tokens)}}
    IN IF known = {} THEN {}
       ELSE ({canonicalize(n) : n \in extract_explicit_dependency_names(content)}
                \cup spelled) \cap known

DependencyLocator(name, primary, fallback) ==
    [name |-> name, primary_path |-> primary, fallback_path |-> fallback]
Some(x) == <<x>>
\* The locators one canonical name gives a file at `path` (the loop body of
\* build_execution_plan and of resolve_dependency_closure); `skip` holds the
\* candidate paths passed over.
LocatorsFor(canonical, skip, primary_index, fallback_index) ==
    LET primary_candidates == index_by_canonical(primary_index, canonical)
        fallback_candidates == index_by_canonical(fallback_index, canonical)
        first_fallback == IF fallback_candidates = <<>> THEN None
                          ELSE Some(fallback_candidates[1])
        wanted(q) == SelectSeq(q, LAMBDA p : p \notin skip)
    IN IF primary_candidates # <<>>
       THEN [i \in 1..Len(wanted(primary_candidates)) |->
                DependencyLocator(file_stem(wanted(primary_candidates)[i]),
                                  Some(wanted(primary_candidates)[i]), first_fallback)]
       ELSE [i \in 1..Len(wanted(fallback_candidates)) |->
                DependencyLocator(file_stem(wanted(fallback_candidates)[i]),
                                  None, Some(wanted(fallback_candidates)[i]))]
\* The locators of a content, canonical names taken in their order.
RECURSIVE LocatorsOfAll(_, _, _, _)
LocatorsOfAll(canonicals, skip, primary_index, fallback_index) ==
    IF canonicals = <<>> THEN <<>>
    ELSE LocatorsFor(Head(canonicals), skip, primary_index, fallback_index)
         \o LocatorsOfAll(Tail(canonicals), skip, primary_index, fallback_index)
DiscoveredLocators(content, skip, primary_index, fallback_index) ==
    LocatorsOfAll(SortedBy(extract_dependency_canonicals(content, primary_index,
                                                         fallback_index),
                           [c \in Range(CanonicalsInOrder) |-> CanonicalRank(c)]),
                  skip, primary_index, fallback_index)

ExecutionNode(name, input_path, direct_dependencies) ==
    [name |-> name, input_path |-> input_path, direct_dependencies |-> direct_dependencies]

\* build_execution_plan up to the call of levelize_with_cycles: the nodes in
\* the order of the selected inputs and, for each, the positions of the
\* selected inputs among its primary candidates, sorted, each once.
PlanNodes(tree, selected, primary_index, fallback_index) ==
    [i \in 1..Len(selected) |->
        ExecutionNode(file_stem(selected[i]), selected[i],
                      DiscoveredLocators(tree[selected[i]], {selected[i]},
                                         primary_index, fallback_index))]
selected_position(selected, p) ==
    CHOOSE i \in 1..Len(selected) :
        selected[i] = p /\ \A j \in 1..Len(selected) : selected[j] = p => j <= i
PlanEdges(selected, nodes) ==
    [i \in 1..Len(nodes) |->
        Ascending({selected_position(selected, d.primary_path[1]) :
                      d \in {e \in Range(nodes[i].direct_dependencies) :
                                /\ e.primary_path # None
                                /\ e.primary_path[1] \in Range(selected)}})]

\* strongly_connected_components: Tarjan's algorithm.
TarjanNew(n) ==
    [index |-> 0, stack |-> <<>>, on_stack |-> [v \in 1..n |-> FALSE],
     indices |-> [v \in 1..n |-> None], lowlink |-> [v \in 1..n |-> 0],
     components |-> <<>>]
PositionIn(q, x) == CHOOSE i \in 1..Len(q) : q[i] = x
PopComponent(st, v) ==
    LET at == PositionIn(st.stack, v)
        component == {st.stack[i] : i \in at..Len(st.stack)}
    IN [st EXCEPT !.stack = SubSeq(st.stack, 1, at - 1),
                  !.on_stack = [w \in DOMAIN st.on_stack |->
                                   IF w \in component THEN FALSE ELSE st.on_stack[w]],
                  !.components = Append(st.components, Ascending(component))]
RECURSIVE strong_connect(_, _, _)
RECURSIVE VisitEdges(_, _, _, _)
VisitEdges(edges, st, v, k) ==
    IF k > Len(edges[v]) THEN st
    ELSE LET w == edges[v][k] IN
         IF st.indices[w] = None
         THEN LET s1 == The({strong_connect(edges, st, w)})
              IN VisitEdges(edges,
                            [s1 EXCEPT !.lowlink[v] = Min(s1.lowlink[v], s1.lowlink[w])],
                            v, k + 1)
         ELSE IF st.on_stack[w]
         THEN VisitEdges(edges,
                         [st EXCEPT !.lowlink[v] = Min(st.lowlink[v], st.indices[w][1])],
                         v, k + 1)
         ELSE VisitEdges(edges, st, v, k + 1)
strong_connect(edges, st, v) ==
    LET s1 == [st EXCEPT !.indices[v] = <<st.index>>, !.lowlink[v] = st.index,
                         !.index = st.index + 1, !.stack = Append(st.stack, v),
                         !.on_stack[v] = TRUE]
        s2 == The({VisitEdges(edges, s1, v, 1)})
    IN IF s2.lowlink[v] = s2.indices[v][1] THEN PopComponent(s2, v) ELSE s2
RECURSIVE TarjanRun(_, _, _)
TarjanRun(edges, st, v) ==
    IF v > Len(edges) THEN st.components
    ELSE IF st.indices[v] = None
    THEN TarjanRun(edges, The({strong_connect(edges, st, v)}), v + 1)
    ELSE TarjanRun(edges, st, v + 1)
strongly_connected_components(edges) == TarjanRun(edges, TarjanNew(Len(edges)), 1)

\* levelize_with_cycles before its loop: the component of each node and the
\* components each component depends on.
node_component(components, v) ==
    CHOOSE c \in 1..Len(components) : v \in Range(components[c])
component_deps(edges, components, c) ==
    {node_component(components, w) :
        w \in UNION {Range(edges[v]) : v \in Range(components[c])}} \ {c}
NodeKey(nodes) == [n \in Range(nodes) |-> PathRank(n.input_path)]
\* nodes_by_component[c]: the nodes of the component in the order of the
\* selected inputs, then sorted by input path.
nodes_by_component(nodes, components, c) ==
    StableSortBy(SelectSeq(nodes, LAMBDA n :
                     \E v \in Range(components[c]) : nodes[v] = n),
                 NodeKey(nodes))
\* current_components without the filter on the dependencies (a fault the
\* order of the levels must notice).
AllRemaining(edges, components, remaining) == remaining
\* One turn of the loop: the components none of whose dependencies remains,
\* all that remain when there is none such.
current_components(edges, components, remaining) ==
    LET ready == {c \in remaining :
                     component_deps(edges, components, c) \cap remaining = {}}
    IN IF ready = {} THEN remaining ELSE ready
\* The key a component is sorted by: the input path of its first node.
ComponentKey(nodes, components) ==
    [c \in 1..Len(components) |->
        PathRank(nodes_by_component(nodes, components, c)[1].input_path)]
RECURSIVE NodesOfComponents(_, _, _)
NodesOfComponents(nodes, components, cs) ==
    IF cs = <<>> THEN <<>>
    ELSE nodes_by_component(nodes, components, Head(cs))
         \o NodesOfComponents(nodes, components, Tail(cs))
\* level_nodes without the sort by input path (a fault the order inside a
\* level must notice).
LevelNodesUnsorted(nodes, components, edges, remaining, order) ==
    NodesOfComponents(nodes, components,
        Iterate(current_components(edges, components, remaining),
                [c \in 1..Len(components) |-> c], order))
\* The level of one turn: the current components in the order the HashSet
\* hands them out, sorted by their keys, their nodes sorted by input path.
level_nodes(nodes, components, edges, remaining, order) ==
    StableSortBy(
        NodesOfComponents(nodes, components,
            StableSortBy(Iterate(current_components(edges, components, remaining),
                                 [c \in 1..Len(components) |-> c], order),
                         ComponentKey(nodes, components))),
        NodeKey(nodes))

(***************************************************************************)
(* build_execution_plan on a tree of drafts: a.md, mt.md and e.md, which   *)
(* name each other in any way, x_y.md and E.md, which are there or not,    *)
(* and z.md under the fallback root.                                       *)
(***************************************************************************)
A == <<"a">>
E == <<"e">>
MT == <<"m", "t">>
M == <<"m">>
T == <<"t">>
X == <<"x">>
Y == <<"y">>
Z == <<"z">>
\* What a.md says, and whether the plan is built with the fallback root.
ContentsOfA ==
    {[text |-> <<>>, fallback |-> FALSE],
     [text |-> <<Words(<<MT>>)>>, fallback |-> FALSE],
     [text |-> <<Words(<<M, T>>)>>, fallback |-> FALSE],
     [text |-> <<DependsOn(<<M, T>>)>>, fallback |-> FALSE],
     [text |-> <<Words(<<E>>)>>, fallback |-> FALSE],
     [text |-> <<Words(<<X, Y>>)>>, fallback |-> FALSE],
     [text |-> <<Words(<<MT, E>>)>>, fallback |-> FALSE],
     [text |-> <<Words(<<M, T, X, Y>>)>>, fallback |-> FALSE],
     [text |-> <<Words(<<Z>>)>>, fallback |-> TRUE],
     [text |-> <<Words(<<E, Z>>)>>, fallback |-> TRUE]}
ContentsOfMT == {<<>>, <<Words(<<A>>)>>, <<Words(<<E>>)>>, <<DependsOn(<<A>>), Words(<<E>>)>>}
ContentsOfE == {<<>>, <<Words(<<A>>)>>, <<Words(<<MT>>)>>, <<Words(<<A, MT>>)>>}
ContentsOfXY == {<<>>, <<Words(<<MT>>)>>}
ContentsOfZ == {<<Words(<<A>>)>>}
Selections ==
    {<<"drafts/a.md", "drafts/mt.md">>,
     <<"drafts/a.md", "drafts/mt.md", "drafts/e.md">>,
     <<"drafts/mt.md", "drafts/e.md", "drafts/a.md">>}
\* A tree is a function from the paths of the files that are there.
Tree(a, mt, e, xy, z) ==
    [p \in PlanPaths |->
        CASE p = "drafts/E.md" -> <<>>
          [] p = "drafts/a.md" -> a
          [] p = "drafts/mt.md" -> mt
          [] p = "drafts/e.md" -> e
          [] p = "drafts/x_y.md" -> xy
          [] p = "fallback/z.md" -> z]
Without(tree, p) == [q \in DOMAIN tree \ {p} |-> tree[q]]
TreesWithXY ==
    {[tree |-> Tree(a.text, mt, e, xy, z), fallback |-> a.fallback] :
        a \in ContentsOfA, mt \in ContentsOfMT, e \in ContentsOfE,
        xy \in ContentsOfXY, z \in ContentsOfZ}
TreesWithUpperE ==
    TreesWithXY \cup {[tree |-> Without(t.tree, "drafts/x_y.md"), fallback |-> t.fallback] :
                         t \in TreesWithXY}
Trees ==
    TreesWithUpperE \cup {[tree |-> Without(t.tree, "drafts/E.md"), fallback |-> t.fallback] :
                             t \in TreesWithUpperE}

\* The indexes of a call: the listings of the roots in some order.
PrimaryIndex(tree, order) ==
    build_index(Iterate(PrimaryPaths \cap DOMAIN tree, PathKey, order))
FallbackIndex(tree, fallback, order) ==
    IF fallback
    THEN build_index(Iterate(FallbackPaths \cap DOMAIN tree, PathKey, order))
    ELSE <<>>

\* levelize_with_cycles run to its end from the components that remain.
RECURSIVE LevelsFrom(_, _, _, _, _)
LevelsFrom(nodes, components, edges, remaining, order) ==
    IF remaining = {} THEN <<>>
    ELSE <<level_nodes(nodes, components, edges, remaining, order)>>
         \o LevelsFrom(nodes, components, edges,
                       remaining \ current_components(edges, components, remaining), order)
\* build_execution_plan as one function of the tree and of the order in which
\* listings and hash sets hand out their elements.
build_execution_plan(tree, fallback, selected, order) ==
    LET nodes == The({PlanNodes(tree, selected, PrimaryIndex(tree, order),
                                FallbackIndex(tree, fallback, order))})
        edges == The({PlanEdges(selected, nodes)})
        components == The({strongly_connected_components(edges)})
    IN LevelsFrom(nodes, components, edges, 1..Len(components), order)
EarlierIdle == LoopIdle /\ GuardIdle /\ ApplyIdle /\ TrackerIdle /\ DriverIdle

PlanInit ==
    /\ EarlierIdle
    /\ ClosureIdle
    /\ ResolveIdle
    /\ CacheIdle
    /\ RunIdle
    /\ \E t \in Trees :
          /\ p_tree = t.tree
          /\ p_fallback = t.fallback
    /\ p_selected \in Selections
    /\ p_pc = "start"
    /\ p_nodes = <<>>
    /\ p_edges = <<>>
    /\ p_components = <<>>
    /\ p_remaining = {}
    /\ p_levels = <<>>

PlanFrame ==
    UNCHANGED <<loop_vars, guard_vars, apply_vars, track_vars, drive_vars, closure_vars,
                resolve_vars, cache_vars, run_vars, p_tree, p_fallback, p_selected>>

\* build_execution_plan up to the loop of levelize_with_cycles.
BuildPlan ==
    \E order \in IterationOrders :
        /\ pc = "idle"
        /\ p_pc = "start"
        /\ \E nodes \in {PlanNodes(p_tree, p_selected, PrimaryIndex(p_tree, order),
                                  FallbackIndex(p_tree, p_fallback, order))} :
             \E edges \in {PlanEdges(p_selected, nodes)} :
               \E components \in {strongly_connected_components(edges)} :
                  /\ p_nodes' = nodes
                  /\ p_edges' = edges
                  /\ p_components' = components
                  /\ p_remaining' = 1..Len(components)
                  /\ p_pc' = IF components = <<>> THEN "done" ELSE "levelize"
        /\ p_levels' = <<>>
        /\ PlanFrame

\* One turn of the loop of levelize_with_cycles.
LevelizeTurn ==
    \E order \in IterationOrders :
        /\ pc = "idle"
        /\ p_pc = "levelize"
        /\ p_remaining # {}
        /\ p_levels' = Append(p_levels,
                              level_nodes(p_nodes, p_components, p_edges, p_remaining, order))
        /\ p_remaining' = p_remaining \ current_components(p_edges, p_components, p_remaining)
        /\ p_pc' = IF p_remaining' = {} THEN "done" ELSE "levelize"
        /\ UNCHANGED <<p_nodes, p_edges, p_components>>
        /\ PlanFrame

PlanNext ==
    \/ BuildPlan
    \/ LevelizeTurn
PlanSpec == PlanInit /\ [][PlanNext]_vars

(***************************************************************************)
(* resolve_direct_dependencies and resolve_dependency_locator on locators  *)
(* over two primary paths, one fallback path and one path that both roots  *)
(* share, any of which exists or not.                                      *)
(***************************************************************************)
PrimaryChoices == {"drafts/p1.md", "drafts/p2.md", "shared/s.md"}
FallbackChoices == {"specs/f1.md", "shared/s.md"}
LocatorPaths == PrimaryChoices \cup FallbackChoices
Locators ==
    {DependencyLocator(<<"n">>, primary, fallback) :
        primary \in {None} \cup {Some(p) : p \in PrimaryChoices},
        fallback \in {None} \cup {Some(f) : f \in FallbackChoices}}
LocatorLists == {<<>>} \cup {<<d>> : d \in Locators} \cup {<<d, e>> : d, e \in Locators}

Primary == "Primary"
Fallback == "Fallback"
\* The rule as resolve_direct_dependencies spells it inside its loop, with
\* the fallback branch left out (a fault the comparison must notice).
InlineWithoutFallback(dep, exists) ==
    IF dep.primary_path # None /\ dep.primary_path[1] \in exists
    THEN Some(<<dep.primary_path[1], Primary>>)
    ELSE None
\* The rule as resolve_direct_dependencies spells it inside its loop.
InlineResolve(dep, exists) ==
    IF dep.primary_path # None
    THEN IF dep.primary_path[1] \in exists
         THEN Some(<<dep.primary_path[1], Primary>>)
         ELSE IF dep.fallback_path # None
              THEN IF dep.fallback_path[1] \in exists
                   THEN Some(<<dep.fallback_path[1], Fallback>>)
                   ELSE None
              ELSE None
    ELSE IF dep.fallback_path # None
         THEN IF dep.fallback_path[1] \in exists
              THEN Some(<<dep.fallback_path[1], Fallback>>)
              ELSE None
         ELSE None
\* resolve_dependency_locator.
resolve_dependency_locator(dep, exists) ==
    IF dep.primary_path # None
    THEN IF dep.primary_path[1] \in exists
         THEN Some(<<dep.primary_path[1], Primary>>)
         ELSE IF dep.fallback_path # None /\ dep.fallback_path[1] \in exists
              THEN Some(<<dep.fallback_path[1], Fallback>>)
              ELSE None
    ELSE IF dep.fallback_path # None /\ dep.fallback_path[1] \in exists
         THEN Some(<<dep.fallback_path[1], Fallback>>)
         ELSE None
ContentOf(path) == <<"content of", path>>
DependencyArtifact(name, path, source, content) ==
    [name |-> name, path |-> path, source |-> source, content |-> content,
     sha256 |-> Sha256(content)]

ResolveInit ==
    /\ EarlierIdle
    /\ PlanIdle
    /\ ClosureIdle
    /\ CacheIdle
    /\ RunIdle
    /\ r_pc = "loop"
    /\ r_deps \in LocatorLists
    /\ r_exists \in SUBSET LocatorPaths
    /\ r_unreadable \in {u \in SUBSET r_exists : Cardinality(u) <= 1}
    /\ r_next = 1
    /\ r_seen = {}
    /\ r_resolved = <<>>

ResolveFrame ==
    UNCHANGED <<loop_vars, guard_vars, apply_vars, track_vars, drive_vars, plan_vars,
                closure_vars, cache_vars, run_vars, r_deps, r_exists, r_unreadable>>

\* One turn of the loop of resolve_direct_dependencies.
ResolveTurn ==
    /\ r_pc = "loop"
    /\ r_next <= Len(r_deps)
    /\ \E found \in {InlineResolve(r_deps[r_next], r_exists)} :
         IF found = None \/ (found # None /\ found[1][1] \in r_seen)
         THEN /\ r_seen' = r_seen \cup (IF found = None THEN {} ELSE {found[1][1]})
              /\ r_next' = r_next + 1
              /\ UNCHANGED <<r_pc, r_resolved>>
         ELSE IF found[1][1] \in r_unreadable
         THEN /\ r_pc' = "err"
              /\ r_seen' = r_seen \cup {found[1][1]}
              /\ r_resolved' = <<>>
              /\ UNCHANGED r_next
         ELSE /\ r_seen' = r_seen \cup {found[1][1]}
              /\ r_resolved' = Append(r_resolved,
                                      DependencyArtifact(r_deps[r_next].name, found[1][1],
                                                         found[1][2], ContentOf(found[1][1])))
              /\ r_next' = r_next + 1
              /\ UNCHANGED r_pc
    /\ ResolveFrame
\* The loop is over: Ok(resolved).
ResolveReturn ==
    /\ r_pc = "loop"
    /\ r_next > Len(r_deps)
    /\ r_pc' = "ok"
    /\ UNCHANGED <<r_next, r_seen, r_resolved>>
    /\ ResolveFrame
ResolveNext ==
    \/ ResolveTurn
    \/ ResolveReturn
ResolveSpec == ResolveInit /\ [][ResolveNext]_vars

(***************************************************************************)
(* resolve_dependency_closure of a node of a finished plan.                *)
(***************************************************************************)
\* The locators the loop pushes for a content without following anything (a
\* fault the transitive dependencies must notice).
PushNothing(content, path, own, primary_index, fallback_index) == <<>>
\* The locators the loop pushes for the content of the artifact at `path`:
\* the candidates of every name found, but for the artifact itself and the
\* node's own input.
closure_push(content, path, own, primary_index, fallback_index) ==
    DiscoveredLocators(content, {path, own}, primary_index, fallback_index)

ClosureInit ==
    /\ EarlierIdle
    /\ ResolveIdle
    /\ CacheIdle
    /\ RunIdle
    /\ \E t \in Trees :
          /\ p_tree = t.tree
          /\ p_fallback = t.fallback
    /\ p_selected \in Selections
    /\ p_pc = "done"
    /\ p_nodes = PlanNodes(p_tree, p_selected, PrimaryIndex(p_tree, "up"),
                           FallbackIndex(p_tree, p_fallback, "up"))
    /\ p_edges = PlanEdges(p_selected, p_nodes)
    /\ p_components = strongly_connected_components(p_edges)
    /\ p_remaining = {}
    /\ p_levels = build_execution_plan(p_tree, p_fallback, p_selected, "up")
    /\ c_pc = "run"
    /\ c_node \in Range(p_nodes)
    /\ c_order \in IterationOrders
    /\ c_queue = c_node.direct_dependencies
    /\ c_seen = {}
    /\ c_resolved = <<>>

ClosureFrame ==
    UNCHANGED <<loop_vars, guard_vars, apply_vars, track_vars, drive_vars, plan_vars,
                resolve_vars, cache_vars, run_vars, c_node, c_order>>

ArtifactKey == [a \in Range(c_resolved) |-> PathRank(a.path)]
\* One turn of the loop of resolve_dependency_closure.
ClosureTurn ==
    /\ c_pc = "run"
    /\ c_queue # <<>>
    /\ \E found \in {resolve_dependency_locator(Last(c_queue), DOMAIN p_tree)} :
         LET rest == SubSeq(c_queue, 1, Len(c_queue) - 1) IN
         IF \/ found = None
            \/ found[1][1] = c_node.input_path
            \/ found[1][1] \in c_seen
         THEN /\ c_queue' = rest
              /\ UNCHANGED <<c_pc, c_seen, c_resolved>>
         ELSE /\ c_seen' = c_seen \cup {found[1][1]}
              /\ c_resolved' =
                    Append(c_resolved,
                           DependencyArtifact(Last(c_queue).name, found[1][1],
                                              found[1][2], p_tree[found[1][1]]))
              /\ c_queue' =
                    rest \o closure_push(p_tree[found[1][1]], found[1][1],
                                         c_node.input_path,
                                         PrimaryIndex(p_tree, c_order),
                                         FallbackIndex(p_tree, p_fallback, c_order))
              /\ UNCHANGED c_pc
    /\ ClosureFrame
\* The queue is empty: the result is sorted by path and returned.
ClosureReturn ==
    /\ c_pc = "run"
    /\ c_queue = <<>>
    /\ c_resolved' = StableSortBy(c_resolved, ArtifactKey)
    /\ c_pc' = "done"
    /\ UNCHANGED <<c_queue, c_seen>>
    /\ ClosureFrame
ClosureNext ==
    \/ ClosureTurn
    \/ ClosureReturn
ClosureSpec == ClosureInit /\ [][ClosureNext]_vars

(***************************************************************************)
(* FileCache: two caches of different outer folders, two keys, two values. *)
(***************************************************************************)
\* FileCache::new.
FileCache(folder, instructions_model_hash) ==
    [folder |-> IF folder = None THEN ".reen" ELSE folder[1],
     instructions_model_hash |-> instructions_model_hash]
FileCaches == {FileCache(None, "h1"), FileCache(Some("other"), "h1")}
CacheKeys == {"k1", "k2"}
CacheValues == {"v1", "v2"}
\* What is left of a file whose write failed after it was created.
Partial == "partial"
\* get_cache_dir and get_cache_path: {folder}/{hash}/{key}.cache.
get_cache_dir(cache) == <<cache.folder, cache.instructions_model_hash>>
get_cache_path(cache, key) == Append(get_cache_dir(cache), <<key, ".cache">>)
CachePaths == {get_cache_path(cache, key) : cache \in FileCaches, key \in CacheKeys}
\* What the file system does to a call of set: the file is written, the
\* directory cannot be created, the file cannot be opened, or the write
\* fails after the file was created.
SetOutcomes == {"written", "no_directory", "not_opened", "torn"}
\* Cache::get.
get(fs, cache, key) ==
    IF fs[get_cache_path(cache, key)] = Missing
    THEN None
    ELSE Some(fs[get_cache_path(cache, key)])
\* Cache::set that reports nothing and writes nothing (a fault a get after a
\* set must notice).
SetNothing(fs, cache, key, value, outcome) == fs
\* Cache::set: errors are printed and go no further.
set(fs, cache, key, value, outcome) ==
    CASE outcome = "no_directory" -> fs
      [] outcome = "not_opened" -> fs
      [] outcome = "torn" -> [fs EXCEPT ![get_cache_path(cache, key)] = Partial]
      [] outcome = "written" -> [fs EXCEPT ![get_cache_path(cache, key)] = value]

CacheInit ==
    /\ EarlierIdle
    /\ PlanIdle
    /\ ClosureIdle
    /\ ResolveIdle
    /\ RunIdle
    /\ k_fs = [path \in CachePaths |-> Missing]
    /\ k_last = [path \in CachePaths |-> None]
    /\ k_out = <<>>

CacheFrame ==
    UNCHANGED <<loop_vars, guard_vars, apply_vars, track_vars, drive_vars, plan_vars,
                closure_vars, resolve_vars, run_vars>>

\* A call of get.
CacheGet ==
    \E cache \in FileCaches, key \in CacheKeys :
        /\ k_fs # <<>>
        /\ k_out' = [op |-> "get", path |-> get_cache_path(cache, key),
                     returned |-> get(k_fs, cache, key)]
        /\ UNCHANGED <<k_fs, k_last>>
        /\ CacheFrame
\* A call of set. create_dir_all fails only where the directory is not there.
CacheSet ==
    \E cache \in FileCaches, key \in CacheKeys, value \in CacheValues,
       outcome \in SetOutcomes :
        /\ k_fs # <<>>
        /\ outcome = "no_directory" =>
              \A other \in CacheKeys : k_fs[get_cache_path(cache, other)] = Missing
        /\ k_fs' = set(k_fs, cache, key, value, outcome)
        /\ k_last' = [k_last EXCEPT ![get_cache_path(cache, key)] =
                         Some([value |-> value, wrote |-> outcome = "written"])]
        /\ k_out' = [op |-> "set", path |-> get_cache_path(cache, key), returned |-> None]
        /\ CacheFrame
CacheNext ==
    \/ CacheGet
    \/ CacheSet
CacheSpec == CacheInit /\ [][CacheNext]_vars

(***************************************************************************)
(* AgentRunner::run, called by two tasks with the same agent and the same  *)
(* input, hence the same cache key.  The cache file is an Option of its    *)
(* content, a content is a sequence of characters.                         *)
(***************************************************************************)
RunTasks == {"t1", "t2"}
\* What the agent runtime can answer: it is not a function of the key.
AgentOutputs == {<<"a">>, <<"b", "b">>}
\* A write of `value` from offset 0 into a file that holds `current`.
Overwrite(current, value) == value \o SubSeq(current, Len(value) + 1, Len(current))
NewTask ==
    [pc |-> "start", hit |-> FALSE, read |-> None, output |-> <<>>, returned |-> <<>>,
     invoked |-> 0, writer |-> "none"]
\* run after execute has answered, with the runtime invoked once more than
\* it is (a fault the count of invocations must notice).
AfterExecuteTwice(task, answer) ==
    [task EXCEPT !.pc = "returned", !.invoked = task.invoked + 2, !.output = answer,
                 !.returned = answer, !.writer = "spawned"]
\* run after execute has answered: the write is handed to a thread and the
\* result is returned.
AfterExecute(task, answer) ==
    [task EXCEPT !.pc = "returned", !.invoked = task.invoked + 1, !.output = answer,
                 !.returned = answer, !.writer = "spawned"]

RunInit ==
    /\ EarlierIdle
    /\ PlanIdle
    /\ ClosureIdle
    /\ ResolveIdle
    /\ CacheIdle
    /\ u_file \in {None, Some(<<"a">>)}
    /\ u_task = [t \in RunTasks |-> NewTask]

RunFrame ==
    UNCHANGED <<loop_vars, guard_vars, apply_vars, track_vars, drive_vars, plan_vars,
                closure_vars, resolve_vars, cache_vars>>

\* Steps 1 to 5 of run: the registries answer or not, then cache.get.
RunLookup ==
    \E t \in RunTasks, registry_ok \in BOOLEAN :
        /\ u_task # <<>>
        /\ u_task[t].pc = "start"
        /\ u_task' = [u_task EXCEPT ![t] =
              IF ~registry_ok THEN [@ EXCEPT !.pc = "failed"]
              ELSE IF u_file # None
              THEN [@ EXCEPT !.pc = "returned", !.hit = TRUE, !.read = u_file,
                             !.returned = u_file[1]]
              ELSE [@ EXCEPT !.pc = "miss"]]
        /\ UNCHANGED u_file
        /\ RunFrame
\* Steps 6 to 8 of run: populate, execute, spawn the write, return.
RunExecute ==
    \E t \in RunTasks, outcome \in {"populate_err", "agent_err", "ok"},
       answer \in AgentOutputs :
        /\ u_task # <<>>
        /\ u_task[t].pc = "miss"
        /\ u_task' = [u_task EXCEPT ![t] =
              CASE outcome = "populate_err" -> [@ EXCEPT !.pc = "failed"]
                [] outcome = "agent_err" -> [@ EXCEPT !.pc = "failed", !.invoked = @ + 1]
                [] outcome = "ok" -> AfterExecute(@, answer)]
        /\ UNCHANGED u_file
        /\ RunFrame
\* The spawned thread, cache.set up to the creation of the file: fs::write
\* creates the file or truncates it.
WriterOpen ==
    \E t \in RunTasks, outcome \in {"no_directory", "not_opened", "opened"} :
        /\ u_task # <<>>
        /\ u_task[t].writer = "spawned"
        /\ outcome = "no_directory" => u_file = None
        /\ IF outcome = "opened"
           THEN /\ u_file' = Some(<<>>)
                /\ u_task' = [u_task EXCEPT ![t].writer = "opened"]
           ELSE /\ u_file' = u_file
                /\ u_task' = [u_task EXCEPT ![t].writer = "failed"]
        /\ RunFrame
\* The spawned thread, the rest of fs::write: the bytes are written from
\* the start of the file, or the write fails.
WriterWrite ==
    \E t \in RunTasks, written \in BOOLEAN :
        /\ u_task # <<>>
        /\ u_task[t].writer = "opened"
        /\ IF written
           THEN /\ u_file' = Some(Overwrite(u_file[1], u_task[t].output))
                /\ u_task' = [u_task EXCEPT ![t].writer = "done"]
           ELSE /\ u_file' = u_file
                /\ u_task' = [u_task EXCEPT ![t].writer = "failed"]
        /\ RunFrame
RunNext ==
    \/ RunLookup
    \/ RunExecute
    \/ WriterOpen
    \/ WriterWrite
RunSpec == RunInit /\ [][RunNext]_vars

(***************************************************************************)
(* Properties of the auto-fix loop                                         *)
(***************************************************************************)
Escalations == {"clarification", "no_diff", "invalid_diff", "guardrails", "apply_failed"}
ReportFile == "guardrail_report.json"

\* Attempt k left the project tree alone and neither applied nor recompiled:
\* k - 1 patches were applied and the compiler ran k times, all before k.
NothingAppliedIn(k) ==
    /\ files = files_before
    /\ applied = k - 1
    /\ Len(compile_log) = k
    /\ attempt_files[k] \cap ({"applied.patch"} \cup AfterFiles) = {}

C1_Resources ==
    /\ agent_calls <= max_attempts
    /\ applied <= max_attempts
    /\ applied <= agent_calls
    /\ Len(compile_log) <= max_attempts + 1
    /\ Len(compile_log) <= applied + 1

\* C1: for every budget max_attempts = N and every behaviour of the compiler
\* and of the agent, the loop asks the agent at most N times, applies at most
\* N patches, runs the compiler at most N + 1 times (once at first and once
\* after each applied patch), and returns.
C1_BoundedLoop == [](C1_Resources) /\ <>(pc = "done")

\* The whole budget is used: N requests, N patches, N + 1 compiler runs.
C1_Witness ==
    /\ pc = "done"
    /\ max_attempts = MaxAttempts
    /\ agent_calls = MaxAttempts
    /\ applied = MaxAttempts
    /\ Len(compile_log) = MaxAttempts + 1

\* C2: outside a dry run the loop returns success exactly when some compiler
\* run succeeds; when that run is the one after attempt k (k = 0: the first
\* run) exactly k patches were applied and the attempt directories are
\* attempt_1..attempt_k; for k = 0 there is no session directory and the
\* agent was never asked.
C2_SuccessIffCompileOk ==
    ~dry_run =>
        /\ (pc = "done" /\ result = "ok")
               <=> (\E i \in 1..Len(compile_log) : compile_log[i] = "ok")
        /\ \A i \in 1..Len(compile_log) :
               compile_log[i] = "ok" =>
                   /\ i = Len(compile_log)
                   /\ pc = "done"
                   /\ applied = i - 1
                   /\ Len(attempt_files) = i - 1
                   /\ \A j \in 1..(i - 1) : "applied.patch" \in attempt_files[j]
                   /\ (i = 1 => ~session_dir /\ agent_calls = 0)

\* Success after two attempts, with two attempt directories.
C2_Witness ==
    /\ pc = "done" /\ result = "ok" /\ ~dry_run
    /\ applied = 2
    /\ Len(attempt_files) = 2
    /\ compile_log = <<"fail", "fail", "ok">>

\* C3: when the agent answers attempt k with questions, the loop returns the
\* error "Compilation resolver requested clarification"; no project file was
\* changed in attempt k and neither the guard nor the applier nor the
\* compiler ran in it.
C3_QuestionsAbort ==
    \A k \in 1..Len(attempt_files) :
        "agent_questions.txt" \in attempt_files[k] =>
            /\ k = attempt
            /\ pc = "done"
            /\ result = "clarification"
            /\ NothingAppliedIn(k)
            /\ ReportFile \notin attempt_files[k]

\* Questions in the second attempt, after one applied patch.
C3_Witness ==
    /\ result = "clarification"
    /\ attempt = 2
    /\ applied = 1
    /\ "agent_questions.txt" \in attempt_files[2]

\* C4 as stated: whenever the guard step of attempt k ends the loop (the
\* guardrails reject the patch, or check_guardrails cannot parse it), the
\* report is in attempt_k, the patch is not applied and the compiler is not
\* run again.
C4_GuardStepFails ==
    (pc = "done" /\ result \in {"guardrails", "invalid_diff"}) =>
        /\ ReportFile \in attempt_files[attempt]
        /\ NothingAppliedIn(attempt)

\* C4, amended: when check_guardrails returns a report that is not ok for the
\* patch of attempt k, the loop returns the error "Auto-fix blocked by
\* guardrails" with the report written in attempt_k, the patch not applied
\* and the compiler not run again; when check_guardrails cannot parse the
\* diff, the loop returns "Invalid unified diff" in the same way but without
\* a report.
C4_GuardrailsReject ==
    /\ (pc = "done" /\ result = "guardrails") =>
           /\ ~guardrail.ok
           /\ ReportFile \in attempt_files[attempt]
           /\ NothingAppliedIn(attempt)
    /\ (attempt >= 1 /\ Len(attempt_files) = attempt
        /\ ReportFile \in attempt_files[attempt] /\ ~guardrail.ok) =>
           (pc = "done" /\ result = "guardrails")
    /\ (pc = "done" /\ result = "invalid_diff") =>
           /\ ReportFile \notin attempt_files[attempt]
           /\ NothingAppliedIn(attempt)

\* The guardrails reject the patch of the second attempt.
C4_Witness ==
    /\ pc = "done" /\ result = "guardrails"
    /\ attempt = 2
    /\ ~guardrail.ok
    /\ ReportFile \in attempt_files[2]

\* An escalation cause occurs in the step that is about to be taken.
EscalationCause ==
    \/ pc = "ask" /\ "agent_questions.txt" \in attempt_files'[attempt]
    \/ pc = "extract" /\ ~extract_unified_diff(patch_text).some
    \/ pc = "guard" /\ ~check_guardrails({}, extracted.diff).parsed
    \/ pc = "guard" /\ ~check_guardrails({}, extracted.diff).report.ok
    \/ pc = "apply" /\ ~apply_unified_diff(files, extracted.diff).ok

C5_Step ==
    /\ pc # "done"
    /\ EscalationCause =>
           /\ pc' = "done"
           /\ result' \in Escalations
           /\ attempt' = attempt
           /\ compile_log' = compile_log
           /\ applied' = applied

\* C5: each escalation cause (questions from the agent, no diff extracted or
\* parsed, guardrails reject, the patch does not apply) ends the loop in the
\* attempt in which it occurs: the loop returns in that very step, and after
\* its return nothing happens any more (no later attempt, no compiler run),
\* whatever is left of the budget.
C5_EscalationEndsLoop == [][C5_Step]_vars

\* A patch that does not apply ends the loop in attempt 1 of 2.
C5_Witness ==
    /\ pc = "done" /\ result = "apply_failed"
    /\ attempt = 1
    /\ max_attempts = 2
    /\ Len(compile_log) = 1

AllCompilesFail ==
    /\ Len(compile_log) = max_attempts + 1
    /\ \A i \in 1..Len(compile_log) : compile_log[i] = "fail"

\* C6: when the first compile and the compile after each of the max_attempts
\* applied patches all fail, the loop returns the error that names the
\* session directory, after exactly max_attempts applied patches and
\* max_attempts requests (none for max_attempts = 0); this error has no other
\* cause.
C6_BudgetExhausted ==
    /\ AllCompilesFail =>
           /\ pc = "done"
           /\ result = "exhausted"
           /\ session_dir
           /\ applied = max_attempts
           /\ agent_calls = max_attempts
    /\ result = "exhausted" => AllCompilesFail /\ applied = max_attempts

\* The budget of MaxAttempts patches is used up.
C6_Witness ==
    /\ pc = "done" /\ result = "exhausted"
    /\ max_attempts = MaxAttempts
    /\ applied = MaxAttempts
    /\ agent_calls = MaxAttempts

(***************************************************************************)
(* Properties of check_guardrails                                          *)
(***************************************************************************)
\* Line i of diff is in the header of a file patch: a "diff --git " line
\* precedes it and no hunk header stands between the two.
InHeader(diff, i) ==
    \E d \in 1..(i - 1) :
        /\ diff[d].k = "diffgit"
        /\ \A m \in (d + 1)..(i - 1) : diff[m].k \notin {"diffgit", "hunk", "badhunk"}

\* Line i of diff is in the body of a hunk.
InBody(diff, i) ==
    \E h \in 1..(i - 1) :
        /\ diff[h].k = "hunk"
        /\ \A m \in (h + 1)..i : diff[m].k \notin {"diffgit", "hunk", "badhunk"}

\* The diff has a file patch with "deleted file mode" or "+++ /dev/null".
FlaggedDeletion(diff) ==
    \E i \in 1..Len(diff) :
        /\ InHeader(diff, i)
        /\ \/ diff[i].k = "deleted"
           \/ diff[i].k = "new" /\ diff[i].t = DevNull

HasIssue(kind) == \E is \in g_out.report.issues : is.kind = kind

TargetOf(fp) ==
    IF fp.new_path \notin {None, EmptyPath} THEN fp.new_path
    ELSE IF fp.old_path # None THEN fp.old_path
    ELSE EmptyPath

UnderSrc(t) == Len(t) >= 2 /\ t[1] = "src"

AllowedTarget(fp) ==
    /\ TargetOf(fp) = CargoToml \/ UnderSrc(TargetOf(fp))
    /\ TargetOf(fp)[1] # ""
    /\ \A i \in 1..Len(TargetOf(fp)) : TargetOf(fp)[i] # ".."
    /\ TargetOf(fp)[1] \notin {"drafts", "specifications"}
    /\ fp.is_new_file => UnderSrc(TargetOf(fp))

AllTargetsAllowed(ps) == \A i \in 1..Len(ps) : AllowedTarget(ps[i])

\* C8: check_guardrails accepts a diff only if every file patch is for
\* Cargo.toml or for a path under src/, no target is absolute, contains ".."
\* or lies under drafts/ or specifications/, and every new file is under src/.
C8_AllowedSurface ==
    (g_out.called /\ g_out.parsed /\ g_out.report.ok) =>
        AllTargetsAllowed(parse_unified_diff(g_diff).patches)

\* An accepted diff with a new file under src/ next to a patch for Cargo.toml.
C8_Witness ==
    /\ g_out.called /\ g_out.parsed /\ g_out.report.ok
    /\ g_out.report.touches_cargo_toml
    /\ g_out.report.adds_files # {}

\* The number of removed lines in the hunks of a diff.
RemovedLines(diff) ==
    Cardinality({i \in 1..Len(diff) : diff[i].k \in {"rem", "old"} /\ InBody(diff, i)})

CitesCount(n) ==
    \E is \in g_out.report.issues :
        is.kind = "Patch deletes too many lines" /\ is.n = n

\* C9: check_guardrails rejects a diff, with an issue that cites the count,
\* whenever the removed lines of all hunks of all its file patches number
\* more than 200; exactly 200 removed lines do not trigger the rule.
C9_DeletedLineLimit ==
    (g_out.called /\ g_out.parsed) =>
        /\ RemovedLines(g_diff) > MaxDeletedLines =>
               ~g_out.report.ok /\ CitesCount(RemovedLines(g_diff))
        /\ RemovedLines(g_diff) = MaxDeletedLines =>
               ~HasIssue("Patch deletes too many lines")

\* What a signature line declares, read off the line itself: the name after
\* "fn" and the parameters between the parentheses that follow the name.
DeclName(t) == t[IndexFrom(t, 1, {"fn"}) + 1]
DeclOpen(t) == IndexFrom(t, IndexFrom(t, 1, {"fn"}) + 1, {"("})
DeclClose(t) == IndexFrom(t, DeclOpen(t) + 1, {")"})
DeclParams(t) == SubSeq(t, DeclOpen(t) + 1, DeclClose(t) - 1)
DeclHasSelf(t) ==
    \E i \in 1..Len(DeclParams(t)) : DeclParams(t)[i] \in {"self", "&self"}

\* A getter: no mutable receiver, no parameter besides the receiver, and a
\* name that does not start with set_.
DeclGetter(t) ==
    /\ DeclParams(t) \in {<<>>, <<"&self">>, <<"self">>}
    /\ DeclName(t) \notin {"set_x", "set_"}
\* A constructor (new, try_new) without a self receiver.
DeclConstructor(t) == DeclName(t) \in {"new", "try_new"} /\ ~DeclHasSelf(t)
DeclAllowed(t) ==
    IF DeclName(t) \in {"new", "try_new"} THEN DeclConstructor(t) ELSE DeclGetter(t)

\* The lines of kind k of the diff that declare a public function.
PubFnLines(diff, k) ==
    {i \in 1..Len(diff) : diff[i].k = k /\ InBody(diff, i) /\ public_fn_re(diff[i].t)}

OneFilePatch(diff) == Cardinality({i \in 1..Len(diff) : diff[i].k = "diffgit"}) = 1

NamedIssue(name) == \E is \in g_out.report.issues : is.name = <<name>>

\* C10: in a file patch, a public function removed without an addition of
\* the same name is always rejected; a public function added without a
\* removal of the same name is accepted iff it is a getter or a constructor
\* without a self receiver.
C10_OneSidedEdits ==
    (g_out.called /\ g_out.parsed /\ OneFilePatch(g_diff)) =>
        /\ \A i \in PubFnLines(g_diff, "rem") :
               (\A j \in PubFnLines(g_diff, "add") :
                    DeclName(g_diff[j].t) # DeclName(g_diff[i].t))
               => ~g_out.report.ok /\ NamedIssue(DeclName(g_diff[i].t))
        /\ \A j \in PubFnLines(g_diff, "add") :
               (/\ DeclClose(g_diff[j].t) # 0
                /\ \A i \in PubFnLines(g_diff, "rem") :
                       DeclName(g_diff[i].t) # DeclName(g_diff[j].t))
               => (~NamedIssue(DeclName(g_diff[j].t)) <=> DeclAllowed(g_diff[j].t))

\* The parameters a signature line declares, the receiver included, and
\* their types; a receiver self / &self has the type Self / &Self.
DeclParamList(t) == IF DeclParams(t) = <<>> THEN <<>> ELSE SplitComma(DeclParams(t))
DeclType(p) ==
    IF p = <<"self">> THEN <<"Self">>
    ELSE IF p = <<"&self">> THEN <<"&", "Self">>
    ELSE SubSeq(p, IndexFrom(p, 1, {":"}) + 1, Len(p))
DeclMutReceiver(t) ==
    DeclParamList(t) # <<>>
    /\ DeclParamList(t)[1] \in {<<"&mut", "self">>, <<"mut", "self">>}
\* The declared return type: what stands between "->" and '{' after the
\* parameters; <<>> when there is none.
DeclReturn(t) ==
    LET arrow == IndexFrom(t, DeclClose(t) + 1, {"->"}) IN
    IF arrow = 0 THEN <<>>
    ELSE SubSeq(t, arrow + 1, IndexFrom(t, arrow + 1, {"{"}) - 1)
\* Two types differ at most by one top-level reference and hold no &mut.
WithoutRef(ty) ==
    IF ty # <<>> /\ ty[1] = "&"
    THEN (IF Len(ty) >= 2 /\ ty[2] \in {"'a", "'static"}
          THEN SubSeq(ty, 3, Len(ty)) ELSE Tail(ty))
    ELSE ty
HoldsMut(ty) == \E i \in 1..Len(ty) : ty[i] = "&mut"
SameUpToRef(a, b) == ~HoldsMut(a) /\ ~HoldsMut(b) /\ WithoutRef(a) = WithoutRef(b)
ModificationAllowed(old, new) ==
    /\ Len(DeclParamList(old)) = Len(DeclParamList(new))
    /\ \A i \in 1..Len(DeclParamList(old)) :
           SameUpToRef(DeclType(DeclParamList(old)[i]), DeclType(DeclParamList(new)[i]))
    /\ SameUpToRef(DeclReturn(old), DeclReturn(new))

\* A diff of one file patch that removes one signature of a public function
\* and adds one of the same name, neither with a mutable receiver.
IsModification(diff, i, j) ==
    /\ PubFnLines(diff, "rem") = {i}
    /\ PubFnLines(diff, "add") = {j}
    /\ DeclClose(diff[i].t) # 0 /\ DeclClose(diff[j].t) # 0
    /\ DeclName(diff[i].t) = DeclName(diff[j].t)
    /\ ~DeclMutReceiver(diff[i].t) /\ ~DeclMutReceiver(diff[j].t)

\* C11: a public function removed and added again under the same name in
\* one file patch is accepted iff the number of parameters is unchanged and
\* every parameter type and the return type change at most by a top-level
\* reference (T <-> &T), no type holding &mut.
C11_Modification ==
    (g_out.called /\ g_out.parsed /\ OneFilePatch(g_diff)) =>
        \A i \in PubFnLines(g_diff, "rem"), j \in PubFnLines(g_diff, "add") :
            IsModification(g_diff, i, j) =>
                (~NamedIssue(DeclName(g_diff[i].t))
                    <=> ModificationAllowed(g_diff[i].t, g_diff[j].t))

\* C12: the diff of an edit, applied to the file it was written against,
\* gives exactly the edited content.
C12_RoundTrip ==
    (a_out.called /\ a_shift = 0) => (a_out.ok /\ a_out.content = a_want)

\* C13: the diff of an edit, applied after up to 5 unrelated lines were put
\* into the file before or after a hunk, still makes the edit at its place:
\* the result is the edited file with the unrelated lines kept.
C13_FuzzyApply ==
    (a_out.called /\ a_shift \in 1..MaxShift) => (a_out.ok /\ a_out.content = a_want)


(***************************************************************************)
(* The build tracker                                                       *)
(***************************************************************************)
\* The last call was needs_update(stage, name, ..) on the present tracker
\* and files.
AskedNeedsUpdate(k) ==
    t_out.op = "needs_update" /\ t_out.stage = k[1] /\ t_out.name = k[2]
InputDiffers(k) ==
    /\ Exists(proj, InputPath(k[1], k[2]))
    /\ Sha256(proj[InputPath(k[1], k[2])]) # tracker[k[1]][k[2]].input_hash

C16_ClearStage ==
    [][ (t_out'.op = "clear_stage" /\ proj' = proj) =>
            /\ t_out'.result =
                   IF t_out'.stage \in DOMAIN tracker
                   THEN Cardinality(DOMAIN tracker[t_out'.stage]) ELSE 0
            /\ t_out'.stage \notin DOMAIN tracker'
            /\ \A st \in Stages \ {t_out'.stage} :
                   /\ st \in DOMAIN tracker' <=> st \in DOMAIN tracker
                   /\ st \in DOMAIN tracker => tracker'[st] = tracker[st]
            /\ \A n \in TrackedNames :
                   needs_update(tracker', proj', t_out'.stage, n,
                                InputPath(t_out'.stage, n),
                                OutputPath(t_out'.stage, n)) = "true"
      ]_vars
\* clear_stage removed two entries and another stage kept its own.
C16_Witness_Cleared ==
    /\ t_out.op = "clear_stage"
    /\ t_out.stage = "Specification"
    /\ t_out.result = 2
    /\ HasTrack(tracker, "Implementation", "a")

\* C17: upstream_changed(Implementation or Tests, "") returns true whenever
\* some Specification record's input-hash differs from the present hash of
\* that record's draft.
C17_UpstreamAny ==
    ( /\ t_out.op = "upstream_changed"
      /\ t_out.stage \in {"Implementation", "Tests"}
      /\ t_out.name = AnyName
      /\ "Specification" \in DOMAIN tracker
      /\ \E n \in DOMAIN tracker["Specification"] :
             /\ Exists(proj, <<"drafts", n>>)
             /\ Sha256(proj[<<"drafts", n>>]) # tracker["Specification"][n].input_hash )
    => t_out.result = "true"


(***************************************************************************)
(* The stage drivers and the tracker                                       *)
(***************************************************************************)
\* The driver has just returned.
Returned == d_pc = "done"

\* C18: when a stage run has returned, the tracker holds no entry for any
\* task that failed in the run, neither in memory nor in the tracker file,
\* and needs_update is true for it on the next run, whatever the tracker
\* held before the run.
C18_FailedTaskHasNoEntry ==
    Returned =>
        \A n \in d_failed :
            /\ ~HasTrack(tracker, d_stage, n)
            /\ ~HasTrack(tracker_file, d_stage, n)
            /\ needs_update(tracker_file, proj, d_stage, n,
                            InputPath(d_stage, n), OutputPath(d_stage, n)) = "true"

\* C19: when a stage run has returned, with Ok or with an error, every
\* FileTrack recorded in memory during the run is in the tracker file.
C19_RecordsAreSaved ==
    Returned =>
        \A n \in d_updated :
            /\ HasTrack(tracker_file, d_stage, n)
            /\ tracker_file[d_stage][n] = tracker[d_stage][n]

\* C20: no task is skipped as up to date in a run in which a task it depends
\* on, directly or transitively, has succeeded before.
C20_DependentsAreRebuilt ==
    \A n \in d_skipped : TransitiveDeps(d_plan, n) \cap d_updated = {}


(***************************************************************************)
(* Levels, parallel tasks and failures in a stage run                      *)
(***************************************************************************)
Running == d_pc \in {"decide", "tasks"}
LevelOf(plan, n) == CHOOSE k \in 1..Len(Levels(plan)) : n \in Range(Levels(plan)[k])
TaskNames == {d_tasks[i].name : i \in 1..Len(d_tasks)}
\* The nodes the run has decided on or begun to work on.
Touched == d_skipped \cup d_failed \cup d_updated \cup TaskNames

\* C21: while a run works on level k, the nodes still to be decided and the
\* tasks not yet committed are all of level k, no node of a later level has
\* been decided or started, and every success so far is in the tracker as
\* well as in updated_in_run; the driver moves to the next level only with
\* no task of the level left.
C21_LevelBarrier ==
    Running =>
        /\ d_level \in 1..Len(Levels(d_plan))
        /\ \A n \in Range(d_todo) \cup TaskNames : LevelOf(d_plan, n) = d_level
        /\ \A n \in Touched : LevelOf(d_plan, n) <= d_level
        /\ \A n \in Nodes :
               LevelOf(d_plan, n) < d_level => n \notin Range(d_todo) \cup TaskNames
        /\ \A n \in d_updated : HasTrack(tracker, d_stage, n)
\* A parallel run decides on level 2 after both tasks of level 1 have been
\* committed, and a sequential run does so too.
C21_Witness_SecondLevel ==
    /\ d_parallel
    /\ d_plan = "fork"
    /\ d_pc = "tasks"
    /\ d_level = 2
    /\ TaskNames = {"c"}
    /\ d_updated \cup d_failed = {"a", "b"}
    /\ d_updated # {}
    /\ d_failed # {}

\* A spawned task runs in this step.
TaskRuns ==
    \E i \in 1..Len(d_tasks) :
        /\ d_tasks[i].state = "spawned"
        /\ Len(d_tasks') = Len(d_tasks)
        /\ d_tasks'[i].state # "spawned"
\* The driver is taking the decisions of a level, before and after the step.
Deciding == d_parallel /\ d_pc = "decide" /\ d_pc' \in {"decide", "tasks"}
\* In a parallel run a spawned task leaves the tracker, the tracker file and
\* updated_in_run alone; they do not change while the driver takes the
\* decisions of a level; and they change only when the driver commits the
\* awaited first task of the level, which has succeeded: the entry of that
\* one node is set, its name enters updated_in_run, the task leaves the list.
ParallelCommits ==
    /\ TaskRuns => UNCHANGED <<tracker, tracker_file, d_updated>>
    /\ Deciding => UNCHANGED <<tracker, tracker_file, d_updated>>
    /\ (d_parallel /\ d_pc = "tasks"
           /\ (tracker' # tracker \/ d_updated' # d_updated)) =>
           /\ Head(d_tasks).state = "ok"
           /\ d_tasks' = Tail(d_tasks)
           /\ HasTrack(tracker', d_stage, Head(d_tasks).name)
           /\ tracker' = InsertTrack(tracker, d_stage, Head(d_tasks).name,
                                     tracker'[d_stage][Head(d_tasks).name])
           /\ d_updated' = d_updated \cup {Head(d_tasks).name}
\* While a parallel run takes the decisions of a level none of the level's
\* tasks has run yet.
NoTaskRunsBeforeDecisions ==
    (d_parallel /\ d_pc = "decide") =>
        \A i \in 1..Len(d_tasks) : d_tasks[i].state = "spawned"

\* C22: in a parallel run the tracker and updated_in_run are touched by the
\* driver only, the decisions of a level are all taken before any task of
\* the level runs, and the results are committed one by one after the task
\* was awaited.
C22_DecisionsBeforeTasks ==
    []NoTaskRunsBeforeDecisions /\ [][ParallelCommits]_vars
\* C22, amended: as C22, but a task of the level may run while the driver
\* still decides on the level's other nodes; the tracker and updated_in_run
\* do not change during these decisions.
C22_DriverOwnsTracker == [][ParallelCommits]_vars
\* A parallel run has committed the first of two tasks of a level while the
\* second, already run, waits for its commit.
C22_Witness_OneCommitted ==
    /\ d_parallel
    /\ d_pc = "tasks"
    /\ d_plan = "fork"
    /\ d_level = 1
    /\ d_updated = {"a"}
    /\ HasTrack(tracker, d_stage, "a")
    /\ Len(d_tasks) = 1
    /\ d_tasks[1].name = "b"
    /\ d_tasks[1].state = "ok"

\* C23: a step in which the transformation of a node fails does not end the
\* run: the driver goes on with the nodes and levels that are left, in
\* sequential and in parallel mode.
C23_FailureContinues ==
    [][ (d_failed' # d_failed /\ d_failed \subseteq d_failed')
            => d_pc' \in {"decide", "tasks", "finish"} ]_vars

(***************************************************************************)
(* The plans of build_execution_plan.                                      *)
(***************************************************************************)
Planned == p_pc = "done"
\* The positions reachable from those of S along the edges.
RECURSIVE EdgeClosure(_, _)
EdgeClosure(edges, S) ==
    LET further == S \cup UNION {Range(edges[v]) : v \in S}
    IN IF further = S THEN S ELSE EdgeClosure(edges, further)
\* Two nodes share a strongly connected component: each reaches the other.
SameComponent(i, j) ==
    /\ j \in EdgeClosure(p_edges, {i})
    /\ i \in EdgeClosure(p_edges, {j})
\* The levels the node at position i of the selected inputs is in.
PlanLevelsOf(i) ==
    {k \in 1..Len(p_levels) :
        \E n \in Range(p_levels[k]) : n.input_path = p_selected[i]}
PlanLevelOf(i) == The(PlanLevelsOf(i))

\* C24: in an emitted plan, for every dependency edge A -> B between
\* selected nodes, A and B are in the same level when they share a strongly
\* connected component, and B's level is strictly before A's otherwise.
C24_LevelsFollowEdges ==
    Planned =>
        \A i \in 1..Len(p_edges) :
            \A j \in Range(p_edges[i]) :
                IF SameComponent(i, j)
                THEN PlanLevelOf(j) = PlanLevelOf(i)
                ELSE PlanLevelOf(j) < PlanLevelOf(i)
\* A plan of two levels: two drafts naming each other in the first, a draft
\* that depends on one of them in the second.
C24_Witness_CycleThenDependent ==
    /\ Planned
    /\ Len(p_levels) = 2
    /\ \E i, j, k \in 1..Len(p_edges) :
          /\ i # j
          /\ j \in Range(p_edges[i])
          /\ i \in Range(p_edges[j])
          /\ i \in Range(p_edges[k])
          /\ ~SameComponent(k, i)
          /\ PlanLevelOf(i) = 1
          /\ PlanLevelOf(j) = 1
          /\ PlanLevelOf(k) = 2

\* The level of a plan that holds the node of an input path.
LevelIn(levels, path) ==
    The({k \in 1..Len(levels) : \E n \in Range(levels[k]) : n.input_path = path})
\* A draft of the tree that is not selected and that the node at position i
\* refers to.
UnselectedReferences(i) ==
    {c \in (DOMAIN p_tree \cap PrimaryPaths) \ Range(p_selected) :
        \E d \in Range(p_nodes[i].direct_dependencies) : d.primary_path = Some(c)}

\* C25: for selected drafts A and B and an unselected draft C that A refers
\* to, the plan built on the tree with C gives A and B the levels the plan
\* built on the tree without C gives them.
C25_UnselectedDraftKeepsLevels ==
    Planned =>
        \A i \in 1..Len(p_selected) :
            \A c \in UnselectedReferences(i) :
                \A j \in 1..Len(p_selected) :
                    LevelIn(p_levels, p_selected[j])
                        = LevelIn(build_execution_plan(Without(p_tree, c), p_fallback,
                                                       p_selected, "up"),
                                  p_selected[j])

\* The places of a plan where the node of an input path stands.
PlacesOf(levels, path) ==
    {place \in UNION {{<<k, m>> : m \in 1..Len(levels[k])} : k \in 1..Len(levels)} :
        levels[place[1]][place[2]].input_path = path}
\* No level is empty and the nodes of every level stand in the order of
\* their input paths.
LevelsWellFormed ==
    \A k \in 1..Len(p_levels) :
        /\ p_levels[k] # <<>>
        /\ \A m, n \in 1..Len(p_levels[k]) :
              m < n => PathRank(p_levels[k][m].input_path)
                          < PathRank(p_levels[k][n].input_path)
\* Every selected input stands at exactly one place of the plan, and the
\* plan holds nothing else.
PlanIsPartition ==
    /\ \A i \in 1..Len(p_selected) :
          Cardinality(PlacesOf(p_levels, p_selected[i])) = 1
    /\ \A k \in 1..Len(p_levels) :
          \A n \in Range(p_levels[k]) : n \in Range(p_nodes)
\* A turn of the loop of levelize_with_cycles takes at least one component
\* out of those that remain and emits one level.
TurnMakesProgress ==
    p_levels' # p_levels =>
        /\ p_remaining' \subseteq p_remaining
        /\ p_remaining' # p_remaining
        /\ Len(p_levels') = Len(p_levels) + 1
\* The loop runs exactly while components remain: with the strict decrease
\* of the finite set of remaining components this is its termination.
LoopEnds ==
    /\ p_pc = "levelize" => p_remaining # {}
    /\ p_pc = "done" => p_remaining = {}
    /\ p_remaining \subseteq 1..Len(p_components)

C27_PlanIsDeterministic ==
    Planned =>
        \A order \in IterationOrders :
            p_levels = build_execution_plan(p_tree, p_fallback, p_selected, order)
\* A plan where the orders could tell: a draft names two files of one
\* canonical name, and a level holds nodes of two components.
C27_Witness_TiesAndTwins ==
    /\ Planned
    /\ \E n \in Range(p_nodes) :
          \E d1, d2 \in Range(n.direct_dependencies) :
              /\ d1.primary_path = Some("drafts/E.md")
              /\ d2.primary_path = Some("drafts/e.md")
    /\ \E k \in 1..Len(p_levels) :
          \E i, j \in 1..Len(p_selected) :
              /\ i # j
              /\ PlanLevelsOf(i) = {k}
              /\ PlanLevelsOf(j) = {k}
              /\ ~SameComponent(i, j)

(***************************************************************************)
(* The resolution of dependency locators.                                  *)
(***************************************************************************)
\* What the rule of the specification gives a locator: the primary path when
\* it exists, else the fallback path when that exists, else nothing.
RuleAnswer(dep) ==
    IF dep.primary_path # None /\ dep.primary_path[1] \in r_exists
    THEN Some(<<dep.primary_path[1], Primary>>)
    ELSE IF dep.fallback_path # None /\ dep.fallback_path[1] \in r_exists
    THEN Some(<<dep.fallback_path[1], Fallback>>)
    ELSE None
\* The locators the loop of resolve_direct_dependencies has been through.
DoneLocators == {r_deps[i] : i \in 1..Min(r_next - 1, Len(r_deps))}

\* C28: a locator resolves to its primary path with source Primary when that
\* exists, else to its fallback path with source Fallback when that exists,
\* else it is dropped; resolve_direct_dependencies and
\* resolve_dependency_locator answer alike for every locator; and the
\* resolved list has no two artifacts of one path.
C28_ResolutionRule ==
    /\ \A dep \in Range(r_deps) :
          /\ resolve_dependency_locator(dep, r_exists) = RuleAnswer(dep)
          /\ InlineResolve(dep, r_exists) = resolve_dependency_locator(dep, r_exists)
    /\ \A m, n \in 1..Len(r_resolved) :
          m # n => r_resolved[m].path # r_resolved[n].path
    /\ \A m \in 1..Len(r_resolved) :
          \E dep \in DoneLocators :
              RuleAnswer(dep) = Some(<<r_resolved[m].path, r_resolved[m].source>>)
    /\ r_pc \in {"loop", "ok"} =>
          \A dep \in DoneLocators :
              RuleAnswer(dep) # None =>
                  \E m \in 1..Len(r_resolved) : r_resolved[m].path = RuleAnswer(dep)[1][1]
\* Two locators were resolved: the first fell back because its primary path
\* is missing, the second named the same file and was passed over.
C28_Witness_FallbackOnce ==
    /\ r_pc = "ok"
    /\ Len(r_deps) = 2
    /\ r_deps[1].primary_path # None
    /\ r_deps[1].primary_path[1] \notin r_exists
    /\ r_deps[1] # r_deps[2]
    /\ Len(r_resolved) = 1
    /\ r_resolved[1].source = Fallback
    /\ RuleAnswer(r_deps[2]) # None

(***************************************************************************)
(* The dependency closure.                                                 *)
(***************************************************************************)
\* The files a file names: for every known name its content spells, the
\* files of that name under the primary root or, when there is none, under
\* the fallback root.
FilesOfName(canonical) ==
    LET named(paths) == {q \in paths \cap DOMAIN p_tree :
                            canonicalize(file_stem(q)) = canonical}
    IN IF named(PrimaryPaths) # {} THEN named(PrimaryPaths)
       ELSE IF p_fallback THEN named(FallbackPaths) ELSE {}
NamedBy(path) ==
    UNION {FilesOfName(canonical) :
              canonical \in extract_dependency_canonicals(
                                p_tree[path], PrimaryIndex(p_tree, "up"),
                                FallbackIndex(p_tree, p_fallback, "up"))}
\* The least set of files that holds S and, but for the node's own input,
\* what its files name.
RECURSIVE Upstream(_)
Upstream(S) ==
    LET further == S \cup UNION {NamedBy(q) : q \in S \ {c_node.input_path}}
    IN IF further = S THEN S ELSE Upstream(further)
DirectlyResolved ==
    {resolve_dependency_locator(d, DOMAIN p_tree)[1][1] :
        d \in {e \in Range(c_node.direct_dependencies) :
                  resolve_dependency_locator(e, DOMAIN p_tree) # None}}
\* A turn of the loop either sees a new file or shortens the queue.
ClosureVariant ==
    (c_pc = "run" /\ c_pc' = "run") =>
        \/ c_seen \subseteq c_seen' /\ c_seen' # c_seen
        \/ c_seen' = c_seen /\ Len(c_queue') < Len(c_queue)
ClosureResult ==
    /\ {a.path : a \in Range(c_resolved)} = Upstream(DirectlyResolved) \ {c_node.input_path}
    /\ \A m, n \in 1..Len(c_resolved) :
          m < n => PathRank(c_resolved[m].path) < PathRank(c_resolved[n].path)
    /\ \A a \in Range(c_resolved) :
          /\ a.content = p_tree[a.path]
          /\ a.source = IF a.path \in PrimaryPaths THEN Primary ELSE Fallback

\* C29: resolve_dependency_closure ends on every artifact graph, reference
\* cycles included, and returns exactly the artifacts reachable from the
\* node's direct dependencies by following discovered dependencies: each
\* path once, never the node's own input path, sorted by path.
C29_ClosureIsUpstream ==
    /\ [][ClosureVariant]_vars
    /\ [](/\ c_seen \subseteq DOMAIN p_tree
          /\ c_pc = "done" => ClosureResult)
\* A closure through a cycle: an artifact that no direct dependency names
\* is in the result, and an artifact of the result names the node itself.
C29_Witness_TransitiveThroughCycle ==
    /\ c_pc = "done"
    /\ Len(c_resolved) >= 3
    /\ \E a \in Range(c_resolved) : a.path \notin DirectlyResolved
    /\ \E a \in Range(c_resolved) : c_node.input_path \in NamedBy(a.path)
    /\ \E a, b \in Range(c_resolved) :
          /\ a.path # b.path
          /\ b.path \in NamedBy(a.path)
          /\ a.path \in NamedBy(b.path)

(***************************************************************************)
(* The file cache.                                                         *)
(***************************************************************************)
\* Calls of get and set on one path leave every other cache file as it is,
\* and a get leaves all of them.
CacheCallsAreLocal ==
    /\ \A path \in CachePaths : path # k_out'.path => k_fs'[path] = k_fs[path]
    /\ k_out'.op = "get" => k_fs' = k_fs
\* A get of a key that was never set is a miss.
NeverSetIsMiss ==
    (k_out # <<>> /\ k_out.op = "get" /\ k_last[k_out.path] = None)
        => k_out.returned = None

ReturnedRight(task) ==
    /\ (task.pc = "returned" /\ task.hit) =>
          /\ task.invoked = 0
          /\ task.returned = task.read[1]
          /\ task.writer = "none"
    /\ (task.pc = "returned" /\ ~task.hit) =>
          /\ task.invoked = 1
          /\ task.returned = task.output
          /\ task.writer # "none"
    /\ task.pc = "failed" => task.writer = "none"
\* The step that returns on a miss has only handed the write over, and
\* nothing the writer does later changes what was returned.
WriteIsBackground ==
    \A t \in RunTasks :
        /\ (u_task[t].pc = "miss" /\ u_task'[t].pc = "returned") =>
              /\ u_task'[t].writer = "spawned"
              /\ u_file' = u_file
        /\ u_task[t].pc = "returned" =>
              /\ u_task'[t].pc = "returned"
              /\ u_task'[t].returned = u_task[t].returned
              /\ u_task'[t].invoked = u_task[t].invoked

\* C31: on a hit run returns the cache entry without invoking the agent
\* runtime; on a miss it invokes the runtime exactly once, returns its
\* output and only schedules the cache write, so that what it returned
\* never depends on the write, and a failed write is no error of run.
C31_RunUsesCache ==
    /\ [][WriteIsBackground]_vars
    /\ [](\A t \in RunTasks : ReturnedRight(u_task[t]))
\* One task returned the runtime's output and its write failed; the other
\* returned the entry that was in the cache.
C31_Witness_HitAndFailedWrite ==
    \E t, u \in RunTasks :
        /\ u_task[t].pc = "returned"
        /\ ~u_task[t].hit
        /\ u_task[t].writer = "failed"
        /\ u_task[t].returned = <<"b", "b">>
        /\ u_task[u].pc = "returned"
        /\ u_task[u].hit
        /\ u_task[u].returned # <<"b", "b">>

\* Both tasks missed, both invoked the agent, both writes are done.
RaceIsOver ==
    \A t \in RunTasks : ~u_task[t].hit /\ u_task[t].writer = "done"
\* C32: when two tasks race on one cache key, the stored entry is the value
\* one of the two wrote, never a mixture, and what each task returned to
\* its caller equals the stored entry.
C32_RaceHasOneWinner ==
    RaceIsOver =>
        /\ u_file \in {Some(u_task[t].output) : t \in RunTasks}
        /\ \A t \in RunTasks : Some(u_task[t].returned) = u_file

(***************************************************************************)
(* Dry runs.                                                               *)
(***************************************************************************)
\* C33: a run of create_specification or create_implementation with dry_run
\* set leaves the build tracker as it is, in memory and on disk.
C33_DryRunLeavesTracker ==
    [][ (d_dry /\ d_dry') => (tracker' = tracker /\ tracker_file' = tracker_file) ]_vars

(***************************************************************************)
(* Patches without a "diff --git " line.                                   *)
(***************************************************************************)
\* C34: a well-formed bare ---/+++ patch that conforms to the policy, once
\* extracted from the agent output, passes Guard like a "diff --git " patch
\* and is applied to its target file.
C34_BarePatchIsApplied ==
    [][ (pc = "guard" /\ patch_text = TextBare /\ extracted.some)
            => (pc' = "apply" /\ extracted'.diff = extracted.diff) ]_vars

\* A removed and an added signature of one public function that both have
\* the mutable receiver: the change keeps it and does not introduce it.
KeepsMutReceiver(diff, i, j) ==
    /\ PubFnLines(diff, "rem") = {i}
    /\ PubFnLines(diff, "add") = {j}
    /\ DeclClose(diff[i].t) # 0 /\ DeclClose(diff[j].t) # 0
    /\ DeclName(diff[i].t) = DeclName(diff[j].t)
    /\ DeclMutReceiver(diff[i].t) /\ DeclMutReceiver(diff[j].t)
    /\ DeclParamList(diff[i].t)[1] = DeclParamList(diff[j].t)[1]
\* The parameters after the receiver and the return type change at most by
\* a top-level reference.
OnlyWidens(old, new) ==
    /\ Len(DeclParamList(old)) = Len(DeclParamList(new))
    /\ \A i \in 2..Len(DeclParamList(old)) :
           SameUpToRef(DeclType(DeclParamList(old)[i]), DeclType(DeclParamList(new)[i]))
    /\ SameUpToRef(DeclReturn(old), DeclReturn(new))

\* C35: a modification of a public function that keeps an existing mutable
\* receiver and otherwise only widens T <-> &T raises no issue for that
\* function: the mutable-receiver rule fires only when the added signature
\* has a mutable receiver and the removed one has none.
C35_KeptMutReceiverAccepted ==
    (g_out.called /\ g_out.parsed /\ OneFilePatch(g_diff)) =>
        \A i \in PubFnLines(g_diff, "rem"), j \in PubFnLines(g_diff, "add") :
            (KeepsMutReceiver(g_diff, i, j) /\ OnlyWidens(g_diff[i].t, g_diff[j].t))
                => ~NamedIssue(DeclName(g_diff[i].t))

\* The pre-image of the hunk under check and the position its header names.
HunkPattern == MapSeq(SelectSeq(h_hunk.lines, IsPreimage), TextOf)
HunkPreferred == SatSub(h_hunk.old_start, 1)
\* The pre-image stands in the file from the 0-based position i on.
OccursAt(i) ==
    /\ i + Len(HunkPattern) <= Len(h_lines)
    /\ \A j \in 1..Len(HunkPattern) : h_lines[i + j] = HunkPattern[j]
Occurrences == {i \in 0..Len(h_lines) : OccursAt(i)}
NearOccurrences ==
    {i \in Occurrences : i - HunkPreferred <= Fuzz /\ HunkPreferred - i <= Fuzz}
Lowest(S) == CHOOSE i \in S : \A k \in S : i <= k
FoundAt(i) == h_out.start.some /\ h_out.start.at = i

\* C36: find_hunk_start returns the preferred index whenever the pre-image
\* matches there, else the lowest match within 100 lines of it, else the
\* lowest match in the file, and no position iff the non-empty pre-image
\* occurs nowhere; for an empty pre-image it returns min(preferred, length).
C36_ThreeTierSearch ==
    h_out.called =>
        IF HunkPattern = <<>> THEN FoundAt(Min(HunkPreferred, Len(h_lines)))
        ELSE /\ OccursAt(HunkPreferred) => FoundAt(HunkPreferred)
             /\ (~OccursAt(HunkPreferred) /\ NearOccurrences # {})
                    => FoundAt(Lowest(NearOccurrences))
             /\ (NearOccurrences = {} /\ Occurrences # {})
                    => FoundAt(Lowest(Occurrences))
             /\ ~h_out.start.some <=> Occurrences = {}

\* The pre-image does not match at the preferred index; it matches within
\* 100 lines of it and, lower in the file, further away: the position found
\* is the lowest one within 100 lines.
C36_Witness_WindowBeforeFullScan ==
    /\ h_out.called
    /\ HunkPattern # <<>>
    /\ ~OccursAt(HunkPreferred)
    /\ NearOccurrences # {}
    /\ Lowest(Occurrences) < Lowest(NearOccurrences)
    /\ FoundAt(Lowest(NearOccurrences))

\* What the hunk under check puts in place of its pre-image, read off the
\* hunk: its context and added lines in order.
IsPostimage(hl) == hl.kind \in {"Context", "Add"}
HunkSegment == MapSeq(SelectSeq(h_hunk.lines, IsPostimage), TextOf)
CountKind(k) == Cardinality({i \in 1..Len(h_hunk.lines) : h_hunk.lines[i].kind = k})

\* C37: once find_hunk_start has returned a position, the re-walk of the
\* hunk reports no mismatch and no line beyond the end of the file, it
\* consumes exactly the pre-image, and the new lines are the old ones before
\* the position, the segment, and the old ones after the pre-image; the
\* length changes by the added lines minus the removed ones.
C37_SpliceAfterFind ==
    (h_out.called /\ h_out.start.some) =>
        /\ h_out.walk.ok
        /\ h_out.walk.pos = h_out.start.at + Len(HunkPattern)
        /\ h_out.walk.pos <= Len(h_lines)
        /\ h_out.ok
        /\ h_out.lines = SubSeq(h_lines, 1, h_out.start.at) \o HunkSegment
                            \o SubSeq(h_lines, h_out.walk.pos + 1, Len(h_lines))
        /\ Len(h_out.lines) = Len(h_lines) + CountKind("Add") - CountKind("Remove")

\* A hunk with a context, a removed and an added line, found at another
\* place than the one its header names, in a file with a line outside the
\* pre-image.
C37_Witness_FuzzySplice ==
    /\ h_out.called
    /\ h_out.start.some
    /\ h_out.start.at # HunkPreferred
    /\ \A k \in {"Context", "Remove", "Add"} : CountKind(k) = 1
    /\ Len(h_lines) > Len(HunkPattern)
    /\ h_out.ok

\* C38: an entry recorded while the output did not exist holds the empty
\* output-hash, and the next needs_update for it returns true whatever
\* happened to the output since: a call of needs_update that finds such an
\* entry, the input being readable, returns true.
C38_EmptyOutputHashRegenerates ==
    ( /\ t_out.op = "needs_update"
      /\ HasTrack(tracker, t_out.stage, t_out.name)
      /\ tracker[t_out.stage][t_out.name].output_hash = EmptyHash
      /\ Exists(proj, InputPath(t_out.stage, t_out.name)) )
    => t_out.result = "true"

\* The files apply_unified_diff wrote: those of the tree afterwards that
\* were not there or held something else before.
WrittenFiles ==
    {p \in DOMAIN g_applied.files :
       p \notin DOMAIN InitialFiles \/ g_applied.files[p] # InitialFiles[p]}

\* C39: when check_guardrails accepts a diff, apply_unified_diff on the same
\* diff writes only Cargo.toml and files under src/ inside the project root
\* (no absolute path, no path with "..", nothing under drafts/ or
\* specifications/), every written path is one the guardrails inspected,
\* and no file is deleted.
C39_GuardAndApplyAgree ==
    g_applied.called =>
        /\ \A p \in WrittenFiles :
               /\ p = CargoToml \/ StartsWithDir(p, "src")
               /\ ~IsAbsolute(p) /\ ~HasDotDot(p)
               /\ ~StartsWithDir(p, "drafts") /\ ~StartsWithDir(p, "specifications")
               /\ p \notin g_links
               /\ p \in g_out.report.touched_files
        /\ DOMAIN InitialFiles \subseteq DOMAIN g_applied.files

\* An accepted diff whose old path lies under drafts/ and whose new path is
\* src/m.rs was applied: src/m.rs was written and nothing else.
C39_Witness_RenameApplied ==
    /\ g_applied.called
    /\ g_applied.ok
    /\ g_diff \in RenameDiffs
    /\ g_diff[2] = OldLine(<<"a">> \o DraftD)
    /\ WrittenFiles = {SrcM}

\* The file patches of the diff under check, and what each of them alone
\* makes of the project.
AppliedPatches == parse_unified_diff(g_diff).patches
Alone(i) == ApplyPatches(InitialFiles, <<AppliedPatches[i]>>)
DistinctTargets ==
    \A i, j \in 1..Len(AppliedPatches) :
        i # j => ApplyTarget(AppliedPatches[i]) # ApplyTarget(AppliedPatches[j])
\* The first file patch that fails, one more than their number when none does.
FirstFailing ==
    Lowest({i \in 1..(Len(AppliedPatches) + 1) :
              i = Len(AppliedPatches) + 1 \/ ~Alone(i).ok})
SameFile(fs, gs, p) ==
    (p \in DOMAIN fs <=> p \in DOMAIN gs) /\ (p \in DOMAIN fs => fs[p] = gs[p])

\* C40: apply_unified_diff takes the file patches in the order of the diff
\* and writes a file once all its hunks are applied: when the patch of the
\* k-th file fails, the call fails, the first k-1 files hold what their
\* patches make of them, and the k-th and all later files, like every other
\* file, are as before.
C40_NoRollback ==
    (g_applied.called /\ DistinctTargets) =>
        /\ g_applied.ok <=> FirstFailing = Len(AppliedPatches) + 1
        /\ \A i \in 1..Len(AppliedPatches) :
               SameFile(g_applied.files,
                        IF i < FirstFailing THEN Alone(i).files ELSE InitialFiles,
                        ApplyTarget(AppliedPatches[i]))
        /\ \A p \in DOMAIN g_applied.files \cup DOMAIN InitialFiles :
               (\A i \in 1..Len(AppliedPatches) : ApplyTarget(AppliedPatches[i]) # p)
                   => SameFile(g_applied.files, InitialFiles, p)

\* Of three file patches the third fails on its second hunk: the first two
\* files are rewritten, one of them new, and the third is as before.
C40_Witness_ThirdFails ==
    /\ g_applied.called
    /\ ~g_applied.ok
    /\ g_diff \in SequenceDiffs
    /\ Len(AppliedPatches) = 3
    /\ FirstFailing = 3
    /\ AppliedPatches[3].hunks # <<>> /\ Len(AppliedPatches[3].hunks) = 2
    /\ SrcN \in DOMAIN g_applied.files
    /\ g_applied.files[CargoToml] # InitialFiles[CargoToml]
    /\ g_applied.files[SrcM] = InitialFiles[SrcM]
====
